---- MODULE Spec2Model ----
(***************************************************************************)
(* Guest identity reconciliation of zento: anonymous sessions, the owner   *)
(* resolver of the finance routes, and the merge of a guest identity into  *)
(* an authenticated one (events.signIn and POST /api/anon/import).         *)
(*                                                                         *)
(* Time is counted in units of ANON_MAX_AGE_SECONDS (180 days), so a       *)
(* session created at time t has expiresAt = t + ANON_MAX_AGE.             *)
(***************************************************************************)
EXTENDS Integers, Sequences, FiniteSets, TLC

\* ---------------------------------------------------------------- bounds
MaxAuth == 1
MaxGuests == 2
MaxCats == 3
MaxTxs == 2
MaxTime == 2
MaxDevices == 1
MaxSources == 1
MaxRequests == 2
MaxReaders == 1

\* ------------------------------------------------------------- constants
ANON_MAX_AGE == 1

None == -1
NoToken == <<"", 0>>
ClearCookie == <<"Max-Age=0", 0>>
NoEmail == <<"mail", 0>>
NoSession == [id |-> None, email |-> NoEmail]

AuthIds == 1..MaxAuth
StaleId == 0
Devices == 1..MaxDevices
Names == {"Food", "food", "Rent"}
LongName == "a category name that is longer than 40 ch"
EmptyDb == [users |-> {}, sessions |-> {}, categories |-> {}, transactions |-> {},
            paymentSources |-> {}]

GuestId(k) == 100 + k
Email(a) == <<"mail", a>>
Token(k) == <<"tok", k>>

\* faulty variant: the token itself is stored and looked up
hashTokenPlain(raw) == raw

\* crypto.createHash("sha256").update(raw).digest("hex"): one-way, collision free
hashToken(raw) == <<"sha256", raw[2]>>

\* String.prototype.toLowerCase on the names of the model
toLowerCase(s) ==
  CASE s = "Food" -> "food"
    [] s = "Rent" -> "rent"
    [] OTHER -> s

VARIABLES db, cookie, auth, now, ctr, mtx, last, merged, reqs

vars == <<db, cookie, auth, now, ctr, mtx, last, merged, reqs>>

\* --------------------------------------------------------------- storage
UserRows(dbv, id) == {u \in dbv.users : u.id = id}
UserByEmail(dbv, e) == {u \in dbv.users : u.email = e}
SessionsByHash(dbv, h) == {s \in dbv.sessions : s.tokenHash = h}
CategoriesOf(dbv, uid) == {c \in dbv.categories : c.userId = uid}
TransactionsOf(dbv, uid) == {t \in dbv.transactions : t.userId = uid}

\* ------------------------------------------------------------- resolvers
\* getUserIdFromNextAuth: session.user.id, else the user found by the
\* session's email, else null
getUserIdFromNextAuth(dbv, sess) ==
  IF sess.id # None THEN sess.id
  ELSE IF sess.email = NoEmail THEN None
  ELSE IF UserByEmail(dbv, sess.email) = {} THEN None
  ELSE (CHOOSE u \in UserByEmail(dbv, sess.email) : TRUE).id

\* faulty variant: a session that expires at this very instant counts as expired
IsExpiredInclusive(s, t) == s.expiresAt # None /\ s.expiresAt <= t

\* the expiry test of every bearer lookup: expiresAt && expiresAt < Date.now()
IsExpired(s, t) == s.expiresAt # None /\ s.expiresAt < t

\* getUserIdFromAnonCookie without its lastSeenAt touch: the owner or null
getUserIdFromAnonCookie(dbv, raw, t) ==
  IF raw = NoToken THEN None
  ELSE IF SessionsByHash(dbv, hashToken(raw)) = {} THEN None
  ELSE LET s == CHOOSE x \in SessionsByHash(dbv, hashToken(raw)) : TRUE
       IN IF IsExpired(s, t) THEN None ELSE s.userId

\* the best-effort anonSession.update({lastSeenAt: new Date()}) of a
\* successful bearer lookup
TouchLastSeen(dbv, raw, t) ==
  IF getUserIdFromAnonCookie(dbv, raw, t) = None THEN dbv
  ELSE [dbv EXCEPT !.sessions =
         {IF s.tokenHash = hashToken(raw) THEN [s EXCEPT !.lastSeenAt = t] ELSE s
            : s \in dbv.sessions}]

\* faulty variant: the bearer cookie is consulted before the authenticated session
getUserIdOrNullCookieFirst(dbv, sess, raw, t) ==
  LET anon == getUserIdFromAnonCookie(dbv, raw, t) IN
  IF anon # None
    THEN [userId |-> anon, isAuthed |-> FALSE, db |-> TouchLastSeen(dbv, raw, t)]
    ELSE [userId |-> getUserIdFromNextAuth(dbv, sess),
          isAuthed |-> getUserIdFromNextAuth(dbv, sess) # None, db |-> dbv]

\* getUserIdOrNull of the routes: the authenticated identity first, then the
\* owner of the bearer cookie, then null (isAuthed as the payment-sources
\* route reports it)
getUserIdOrNull(dbv, sess, raw, t) ==
  LET authed == getUserIdFromNextAuth(dbv, sess) IN
  IF authed # None
    THEN [userId |-> authed, isAuthed |-> TRUE, db |-> dbv]
    ELSE [userId |-> getUserIdFromAnonCookie(dbv, raw, t), isAuthed |-> FALSE,
          db |-> TouchLastSeen(dbv, raw, t)]

\* getUserContext of the transactions page: session.user.id, else the user of
\* the session's email, else the bearer cookie's unexpired session, else null
getUserContext(dbv, sess, raw, t) ==
  IF sess.id # None THEN [userId |-> sess.id, isAuthed |-> TRUE, db |-> dbv]
  ELSE IF sess.email # NoEmail /\ UserByEmail(dbv, sess.email) # {}
    THEN [userId |-> (CHOOSE u \in UserByEmail(dbv, sess.email) : TRUE).id,
          isAuthed |-> TRUE, db |-> dbv]
  ELSE IF raw = NoToken THEN [userId |-> None, isAuthed |-> FALSE, db |-> dbv]
  ELSE LET found == {x \in dbv.sessions : x.tokenHash = hashToken(raw)} IN
       IF found = {} THEN [userId |-> None, isAuthed |-> FALSE, db |-> dbv]
       ELSE LET s == CHOOSE x \in found : TRUE IN
            IF s.expiresAt # None /\ s.expiresAt < t
              THEN [userId |-> None, isAuthed |-> FALSE, db |-> dbv]
              ELSE [userId |-> s.userId, isAuthed |-> FALSE,
                    db |-> [dbv EXCEPT !.sessions =
                              (@ \ {s}) \cup {[s EXCEPT !.lastSeenAt = t]}]]

\* faulty variant: the new user is created without isAnonymous: true (the column
\* defaults to false)
getUserIdOrCreateUnflagged(dbv, sess, raw, t, k) ==
  LET existing == getUserIdOrNull(dbv, sess, raw, t) IN
  IF existing.userId # None
    THEN [userId |-> existing.userId, setCookie |-> NoToken, db |-> existing.db,
          created |-> FALSE]
    ELSE [userId |-> GuestId(k), setCookie |-> Token(k), created |-> TRUE,
          db |-> [existing.db EXCEPT
                   !.users = @ \cup {[id |-> GuestId(k), isAnonymous |-> FALSE,
                                      email |-> NoEmail,
                                      defaultTransactionsPaymentSourceId |-> None]},
                   !.sessions = @ \cup {[id |-> k, userId |-> GuestId(k),
                                         tokenHash |-> hashToken(Token(k)),
                                         expiresAt |-> t + ANON_MAX_AGE,
                                         lastSeenAt |-> t]}]]

\* getUserIdOrCreateAnonForWrite: the resolved owner, or a new anonymous user
\* with one session for a fresh random token k
getUserIdOrCreateAnonForWrite(dbv, sess, raw, t, k) ==
  LET existing == getUserIdOrNull(dbv, sess, raw, t) IN
  IF existing.userId # None
    THEN [userId |-> existing.userId, setCookie |-> NoToken, db |-> existing.db,
          created |-> FALSE]
    ELSE [userId |-> GuestId(k), setCookie |-> Token(k), created |-> TRUE,
          db |-> [existing.db EXCEPT
                   !.users = @ \cup {[id |-> GuestId(k), isAnonymous |-> TRUE,
                                      email |-> NoEmail,
                                      defaultTransactionsPaymentSourceId |-> None]},
                   !.sessions = @ \cup {[id |-> k, userId |-> GuestId(k),
                                         tokenHash |-> hashToken(Token(k)),
                                         expiresAt |-> t + ANON_MAX_AGE,
                                         lastSeenAt |-> t]}]]

\* what the browser does with the Set-Cookie header of a response
ApplySetCookie(jar, d, header) ==
  IF header = NoToken THEN jar
  ELSE IF header = ClearCookie THEN [jar EXCEPT ![d] = NoToken]
  ELSE [jar EXCEPT ![d] = header]

assertCategoryBelongsToUser(dbv, userId, categoryId) ==
  \E c \in dbv.categories : c.id = categoryId /\ c.userId = userId

\* ------------------------------------------------------------------ init
\* the locals of a merge transaction that runs beside others, and the rows it
\* has written (put) and deleted (del, by id) without having committed
NoTx == [anonUserId |-> None, authedUserId |-> None, authedEmail |-> NoEmail,
         final |-> None, anonCategories |-> <<>>, authedByName |-> <<>>,
         put |-> EmptyDb, del |-> EmptyDb]

\* a request slot: the handler's position and locals, then its response
NoRequest == [pc |-> "idle", op |-> "none", dev |-> 0, raw |-> NoToken,
              sess |-> NoSession, body |-> "", userId |-> None,
              isAuthed |-> FALSE, setCookie |-> NoToken, provisioned |-> None,
              created |-> None, status |-> 0, rows |-> {}, during |-> FALSE,
              pre |-> EmptyDb, touch |-> "none", touchId |-> None,
              merge |-> "none", tx |-> NoTx]

Requests == 1..MaxRequests

Idle == [pc |-> "idle", entry |-> "none", dev |-> 0, anonUserId |-> None,
         authedUserId |-> None, authedEmail |-> NoEmail, final |-> None,
         anonCategories |-> <<>>, authedByName |-> <<>>, work |-> EmptyDb,
         pre |-> EmptyDb]

NoReply == [op |-> "none", dev |-> 0, userId |-> None, isAuthed |-> FALSE,
            status |-> 0, setCookie |-> NoToken, created |-> None,
            provisioned |-> None, directive |-> NoToken, body |-> {},
            merge |-> "none", at |-> "none", pre |-> EmptyDb, anon |-> None, final |-> None]

Init ==
  /\ db = EmptyDb
  /\ cookie = [d \in Devices |-> NoToken]
  /\ auth = [d \in Devices |-> NoSession]
  /\ now = 0
  /\ ctr = [guests |-> 0, cats |-> 0, txs |-> 0, sources |-> 0]
  /\ mtx = Idle
  /\ last = NoReply
  /\ merged = {}
  /\ reqs = [r \in Requests |-> NoRequest]

\* no merge transaction is open and no response is on its way to the client:
\* requests are served one at a time
Quiet == mtx.pc = "idle" /\ last = NoReply

\* the browser receives the response and applies its Set-Cookie header
Receive ==
  /\ mtx.pc = "idle"
  /\ last # NoReply
  /\ cookie' = ApplySetCookie(cookie, last.dev, last.setCookie)
  /\ last' = NoReply
  /\ UNCHANGED <<db, auth, now, ctr, mtx, merged, reqs>>

Tick ==
  /\ Quiet
  /\ now < MaxTime
  /\ now' = now + 1
  /\ UNCHANGED <<db, cookie, auth, ctr, mtx, last, merged, reqs>>

\* ---------------------------------------------------------------- writes
\* POST /api/finance/categories with body `name` ("invalid-json" stands for
\* a body req.json() rejects)
CategoriesPOST(d, body) ==
  /\ Quiet
  /\ LET r == getUserIdOrCreateAnonForWrite(db, auth[d], cookie[d], now, ctr.guests + 1)
         bad == body = "invalid-json" \/ body = "" \/ Len(body) > 40
         dup == \E c \in r.db.categories : c.userId = r.userId /\ c.name = body
         id == ctr.cats + 1
     IN /\ r.created => ctr.guests < MaxGuests
        /\ (~bad /\ ~dup) => ctr.cats < MaxCats
        /\ ctr' = [ctr EXCEPT !.guests = IF r.created THEN @ + 1 ELSE @,
                              !.cats = IF ~bad /\ ~dup THEN @ + 1 ELSE @]
        /\ db' = IF bad \/ dup THEN r.db
                 ELSE [r.db EXCEPT !.categories =
                         @ \cup {[id |-> id, userId |-> r.userId, name |-> body]}]
        /\ last' = [NoReply EXCEPT
                      !.op = "CategoriesPOST", !.dev = d, !.userId = r.userId,
                      !.status = IF bad THEN 400 ELSE IF dup THEN 409 ELSE 201,
                      !.setCookie = IF bad \/ dup THEN NoToken ELSE r.setCookie,
                      !.created = IF bad \/ dup THEN None ELSE id,
                      !.provisioned = IF r.created THEN r.userId ELSE None,
                      !.directive = r.setCookie]
  /\ UNCHANGED <<cookie, auth, now, mtx, merged, reqs>>

\* prisma.paymentSource.findFirst({where: {id, userId}}) finds a row
assertPaymentSourceBelongsToUser(dbv, userId, id) ==
  \E p \in dbv.paymentSources : p.id = id /\ p.userId = userId

\* POST /api/finance/transactions: `kind` is what the body validation finds,
\* categoryId and paymentSourceId the category and the payment source the
\* body names (None for none)
TransactionsPOST(d, kind, categoryId, paymentSourceId) ==
  /\ Quiet
  /\ LET r == getUserIdOrCreateAnonForWrite(db, auth[d], cookie[d], now, ctr.guests + 1)
         bad == \/ kind # "ok"
                \/ categoryId # None /\ ~assertCategoryBelongsToUser(r.db, r.userId, categoryId)
                \/ /\ paymentSourceId # None
                   /\ ~assertPaymentSourceBelongsToUser(r.db, r.userId, paymentSourceId)
         id == ctr.txs + 1
     IN /\ r.created => ctr.guests < MaxGuests
        /\ ~bad => ctr.txs < MaxTxs
        /\ ctr' = [ctr EXCEPT !.guests = IF r.created THEN @ + 1 ELSE @,
                              !.txs = IF ~bad THEN @ + 1 ELSE @]
        /\ db' = IF bad THEN r.db
                 ELSE [r.db EXCEPT !.transactions =
                         @ \cup {[id |-> id, userId |-> r.userId,
                                  categoryId |-> categoryId,
                                  paymentSourceId |-> paymentSourceId]}]
        /\ last' = [NoReply EXCEPT
                      !.op = "TransactionsPOST", !.dev = d, !.userId = r.userId,
                      !.status = IF bad THEN 400 ELSE 201,
                      !.setCookie = IF bad THEN NoToken ELSE r.setCookie,
                      !.created = IF bad THEN None ELSE id,
                      !.provisioned = IF r.created THEN r.userId ELSE None,
                      !.directive = r.setCookie]
  /\ UNCHANGED <<cookie, auth, now, mtx, merged, reqs>>

\* ----------------------------------------------------------------- reads
Ids(rows) == {r.id : r \in rows}

\* the reply of a read handler: `empty` is what it answers without an owner
ReadReply(op, d, r, rows, empty) ==
  [NoReply EXCEPT !.op = op, !.dev = d, !.userId = r.userId,
                  !.isAuthed = r.isAuthed,
                  !.status = IF r.userId = None THEN empty ELSE 200,
                  !.body = IF r.userId = None THEN {} ELSE Ids(rows)]

\* GET /api/finance/categories
CategoriesGET(d) ==
  /\ Quiet
  /\ LET r == getUserIdOrNull(db, auth[d], cookie[d], now) IN
       /\ db' = r.db
       /\ last' = ReadReply("CategoriesGET", d, r, CategoriesOf(db, r.userId), 200)
  /\ UNCHANGED <<cookie, auth, now, ctr, mtx, merged, reqs>>

\* GET /api/finance/transactions (the route in use)
TransactionsGET(d) ==
  /\ Quiet
  /\ LET r == getUserIdOrNull(db, auth[d], cookie[d], now) IN
       /\ db' = r.db
       /\ last' = ReadReply("TransactionsGET", d, r, TransactionsOf(db, r.userId), 200)
  /\ UNCHANGED <<cookie, auth, now, ctr, mtx, merged, reqs>>

\* GET of the other transactions route of the repository (401 without owner)
TransactionsGETUnauthorized(d) ==
  /\ Quiet
  /\ LET r == getUserIdOrNull(db, auth[d], cookie[d], now) IN
       /\ db' = r.db
       /\ last' = ReadReply("TransactionsGETUnauthorized", d, r,
                            TransactionsOf(db, r.userId), 401)
  /\ UNCHANGED <<cookie, auth, now, ctr, mtx, merged, reqs>>

\* the transactions page: getUserContext, then the owner's transactions
TransactionsPage(d) ==
  /\ Quiet
  /\ LET r == getUserContext(db, auth[d], cookie[d], now) IN
       /\ db' = r.db
       /\ last' = ReadReply("TransactionsPage", d, r, TransactionsOf(db, r.userId), 200)
  /\ UNCHANGED <<cookie, auth, now, ctr, mtx, merged, reqs>>

\* the header's signOut(): the authenticated session of the device ends
SignOut(d) ==
  /\ Quiet
  /\ auth[d] # NoSession
  /\ auth' = [auth EXCEPT ![d] = NoSession]
  /\ last' = [NoReply EXCEPT !.op = "SignOut", !.dev = d]
  /\ UNCHANGED <<db, cookie, now, ctr, mtx, merged, reqs>>

\* ------------------------------------------------------- payment sources
\* faulty variant: the route provisions and serves guests like the others
PaymentSourcesPOSTForGuests(d, body) ==
  /\ Quiet
  /\ LET r == getUserIdOrCreateAnonForWrite(db, auth[d], cookie[d], now, ctr.guests + 1)
         bad == body = ""
         dup == \E p \in r.db.paymentSources : p.userId = r.userId /\ p.name = body
         id == ctr.sources + 1
     IN /\ r.created => ctr.guests < MaxGuests
        /\ (~bad /\ ~dup) => ctr.sources < MaxSources
        /\ ctr' = [ctr EXCEPT !.guests = IF r.created THEN @ + 1 ELSE @,
                              !.sources = IF ~bad /\ ~dup THEN @ + 1 ELSE @]
        /\ db' = IF bad \/ dup THEN r.db
                 ELSE [r.db EXCEPT !.paymentSources =
                         @ \cup {[id |-> id, userId |-> r.userId, name |-> body]}]
        /\ last' = [NoReply EXCEPT
                      !.op = "PaymentSourcesPOST", !.dev = d, !.userId = r.userId,
                      !.status = IF bad THEN 400 ELSE IF dup THEN 409 ELSE 201,
                      !.setCookie = IF bad \/ dup THEN NoToken ELSE r.setCookie,
                      !.created = IF bad \/ dup THEN None ELSE id]
  /\ UNCHANGED <<cookie, auth, now, mtx, merged, reqs>>

\* requireAuthedUserId of the payment-sources route, getAuthedUserId of the
\* preferences route: the authenticated identity or null
requireAuthedUserId(dbv, sess) == getUserIdFromNextAuth(dbv, sess)

\* POST /api/finance/payment-sources with body `name`: logged-in only
PaymentSourcesPOST(d, body) ==
  /\ Quiet
  /\ LET userId == requireAuthedUserId(db, auth[d])
         bad == body = ""
         dup == \E p \in db.paymentSources : p.userId = userId /\ p.name = body
         made == userId # None /\ ~bad /\ ~dup
         id == ctr.sources + 1
     IN /\ made => ctr.sources < MaxSources
        /\ ctr' = [ctr EXCEPT !.sources = IF made THEN @ + 1 ELSE @]
        /\ db' = IF made
                   THEN [db EXCEPT !.paymentSources =
                           @ \cup {[id |-> id, userId |-> userId, name |-> body]}]
                   ELSE db
        /\ last' = [NoReply EXCEPT
                      !.op = "PaymentSourcesPOST", !.dev = d, !.userId = userId,
                      !.isAuthed = userId # None,
                      !.status = IF userId = None THEN 401 ELSE IF bad THEN 400
                                 ELSE IF dup THEN 409 ELSE 201,
                      !.created = IF made THEN id ELSE None]
  /\ UNCHANGED <<cookie, auth, now, mtx, merged, reqs>>

\* POST /api/user/preferences with defaultTransactionsPaymentSourceId = value
\* (None for "all accounts"): logged-in only, the source must be the user's
PreferencesPOST(d, value) ==
  /\ Quiet
  /\ LET userId == requireAuthedUserId(db, auth[d])
         bad == value # None /\ ~assertPaymentSourceBelongsToUser(db, userId, value)
     IN /\ db' = IF userId = None \/ bad THEN db
                 ELSE [db EXCEPT !.users =
                         {IF u.id = userId
                            THEN [u EXCEPT !.defaultTransactionsPaymentSourceId = value]
                            ELSE u : u \in @}]
        /\ last' = [NoReply EXCEPT
                      !.op = "PreferencesPOST", !.dev = d, !.userId = userId,
                      !.isAuthed = userId # None,
                      !.status = IF userId = None THEN 401 ELSE IF bad THEN 400 ELSE 200]
  /\ UNCHANGED <<cookie, auth, now, ctr, mtx, merged, reqs>>

\* ----------------------------------------------------- merge: statements
\* faulty variant: the transactions of a colliding category are not redirected
RedirectNothing(dbv, userId, from, to) == dbv

\* tx.transaction.updateMany({where: {userId, categoryId: from},
\*                            data: {categoryId: to}})
RedirectTransactions(dbv, userId, from, to) ==
  [dbv EXCEPT !.transactions =
     {IF t.userId = userId /\ t.categoryId = from
        THEN [t EXCEPT !.categoryId = to] ELSE t : t \in @}]

\* tx.category.delete({where: {id}})
DeleteCategory(dbv, id) ==
  [dbv EXCEPT !.categories = {c \in @ : c.id # id}]

\* tx.category.update({where: {id}, data: {userId: to}})
MoveCategory(dbv, id, to) ==
  [dbv EXCEPT !.categories =
     {IF c.id = id THEN [c EXCEPT !.userId = to] ELSE c : c \in @}]

\* faulty variant: the sweep moves only the transactions without a category
MoveUncategorisedTransactions(dbv, from, to) ==
  [dbv EXCEPT !.transactions =
     {IF t.userId = from /\ t.categoryId = None
        THEN [t EXCEPT !.userId = to] ELSE t : t \in @}]

\* tx.transaction.updateMany({where: {userId: from}, data: {userId: to}})
MoveTransactions(dbv, from, to) ==
  [dbv EXCEPT !.transactions =
     {IF t.userId = from THEN [t EXCEPT !.userId = to] ELSE t : t \in @}]

\* tx.anonSession.deleteMany({where: {userId}})
DeleteSessions(dbv, userId) ==
  [dbv EXCEPT !.sessions = {x \in @ : x.userId # userId}]

\* faulty variant: the user is deleted whatever its guest flag says
DeleteUserWhateverFlag(dbv, id) ==
  [dbv EXCEPT !.users = {u \in @ : u.id # id},
              !.sessions = {x \in @ : x.userId # id}]

\* faulty variant: the guest flag is tested the wrong way round
DeleteUserUnlessAnon(dbv, id) ==
  LET gone == {u \in dbv.users : u.id = id /\ ~u.isAnonymous} IN
  [dbv EXCEPT !.users = @ \ gone,
              !.sessions = IF gone = {} THEN @ ELSE {x \in @ : x.userId # id}]

\* ON DELETE CASCADE of AnonSession.userId and PaymentSource.userId, ON DELETE
\* SET NULL of Transaction.paymentSourceId and of
\* User.defaultTransactionsPaymentSourceId, for the deleted users `gone`
CascadeUserDelete(dbv, gone) ==
  LET ids == Ids(gone)
      sources == Ids({p \in dbv.paymentSources : p.userId \in ids})
  IN [dbv EXCEPT
        !.users = {IF u.defaultTransactionsPaymentSourceId \in sources
                     THEN [u EXCEPT !.defaultTransactionsPaymentSourceId = None]
                     ELSE u : u \in @ \ gone},
        !.sessions = {x \in @ : x.userId \notin ids},
        !.paymentSources = {p \in @ : p.userId \notin ids},
        !.transactions = {IF t.paymentSourceId \in sources
                            THEN [t EXCEPT !.paymentSourceId = None]
                            ELSE t : t \in @}]

\* tx.user.deleteMany({where: {id, isAnonymous: true}}) and what the foreign
\* keys do with the rows that refer to the deleted user
DeleteAnonUser(dbv, id) ==
  CascadeUserDelete(dbv, {u \in dbv.users : u.id = id /\ u.isAnonymous})

\* faulty variant: the transaction ends without retiring the guest
RetireNothing(dbv, id) == dbv

\* the end of the transaction: the guest's sessions, then the guest itself
RetireGuest(dbv, id) == DeleteAnonUser(DeleteSessions(dbv, id), id)

\* faulty variant: the expiry of the session is not looked at
MergeSessionOwnerIgnoringExpiry(dbv, raw, t) ==
  IF raw = NoToken THEN None
  ELSE LET found == {x \in dbv.sessions : x.tokenHash = hashToken(raw)} IN
       IF found = {} THEN None
       ELSE (CHOOSE x \in found : TRUE).userId

\* the owner of the device's bearer session as mergeAnonIntoAuthedUser reads
\* it before the transaction; None when it returns early
MergeSessionOwner(dbv, raw, t) ==
  IF raw = NoToken THEN None
  ELSE LET found == {x \in dbv.sessions : x.tokenHash = hashToken(raw)} IN
       IF found = {} THEN None
       ELSE LET anonSess == CHOOSE x \in found : TRUE IN
            IF anonSess.expiresAt # None /\ anonSess.expiresAt < t THEN None
            ELSE anonSess.userId

\* the same lookup in POST /api/anon/import
ImportSessionOwner(dbv, raw, t) ==
  LET found == {x \in dbv.sessions : x.tokenHash = hashToken(raw)} IN
  IF found = {} THEN None
  ELSE LET anonSess == CHOOSE x \in found : TRUE IN
       IF anonSess.expiresAt # None /\ anonSess.expiresAt < t THEN None
       ELSE anonSess.userId

\* faulty variant: the fallback runs without an email as well and then finds
\* a user that has none
FindAuthedUserEmailUnchecked(dbv, id, email) ==
  IF UserRows(dbv, id) # {} THEN id
  ELSE IF UserByEmail(dbv, email) # {}
    THEN (CHOOSE u \in UserByEmail(dbv, email) : TRUE).id
  ELSE None

\* the authenticated user the transaction merges into: by id, then (sign-in
\* merge only, email given) by email; None when the callback throws
FindAuthedUser(dbv, id, email) ==
  IF UserRows(dbv, id) # {} THEN id
  ELSE IF email # NoEmail /\ UserByEmail(dbv, email) # {}
    THEN (CHOOSE u \in UserByEmail(dbv, email) : TRUE).id
  ELSE None

\* the orders in which findMany may return a set of rows
Orders(S) ==
  {q \in [1..Cardinality(S) -> S] : \A i, j \in 1..Cardinality(S) : q[i] = q[j] => i = j}

\* new Map(authedCategories.map((c) => [c.name.toLowerCase(), c.id])): a later
\* entry replaces an earlier one with the same key
RECURSIVE MapOf(_)
MapOf(q) ==
  IF q = <<>> THEN <<>>
  ELSE LET c == q[Len(q)] IN
       (toLowerCase(c.name) :> c.id) @@ MapOf(SubSeq(q, 1, Len(q) - 1))

\* faulty variant: a moved category is not entered into authedByName
MergeCategoryUnregistered(m) ==
  LET anonCat == Head(m.anonCategories)
      key == toLowerCase(anonCat.name)
  IN IF key \in DOMAIN m.authedByName
       THEN [m EXCEPT
               !.work = DeleteCategory(
                          RedirectTransactions(@, m.anonUserId, anonCat.id,
                                               m.authedByName[key]),
                          anonCat.id),
               !.anonCategories = Tail(@)]
       ELSE [m EXCEPT
               !.work = MoveCategory(@, anonCat.id, m.final),
               !.anonCategories = Tail(@)]

\* faulty variant: the blanket reassignment of the guest's transactions runs
\* before the category is reconciled
MergeCategoryAfterSweep(m) ==
  LET anonCat == Head(m.anonCategories)
      key == toLowerCase(anonCat.name)
      swept == MoveTransactions(m.work, m.anonUserId, m.final)
  IN IF key \in DOMAIN m.authedByName
       THEN [m EXCEPT
               !.work = DeleteCategory(
                          RedirectTransactions(swept, m.anonUserId, anonCat.id,
                                               m.authedByName[key]),
                          anonCat.id),
               !.anonCategories = Tail(@)]
       ELSE [m EXCEPT
               !.work = MoveCategory(swept, anonCat.id, m.final),
               !.authedByName = (key :> anonCat.id) @@ @,
               !.anonCategories = Tail(@)]

\* one turn of the loop over anonCategories
MergeCategory(m) ==
  LET anonCat == Head(m.anonCategories)
      key == toLowerCase(anonCat.name)
  IN IF key \in DOMAIN m.authedByName
       THEN [m EXCEPT
               !.work = DeleteCategory(
                          RedirectTransactions(@, m.anonUserId, anonCat.id,
                                               m.authedByName[key]),
                          anonCat.id),
               !.anonCategories = Tail(@)]
       ELSE [m EXCEPT
               !.work = MoveCategory(@, anonCat.id, m.final),
               !.authedByName = (key :> anonCat.id) @@ @,
               !.anonCategories = Tail(@)]

\* the statement of this turn fails: the row to delete or update is gone, or
\* the move would break the unique index (userId, name)
MergeCategoryThrows(m) ==
  LET anonCat == Head(m.anonCategories)
      key == toLowerCase(anonCat.name)
  IN \/ ~\E c \in m.work.categories : c.id = anonCat.id
     \/ /\ key \notin DOMAIN m.authedByName
        /\ \E c \in m.work.categories :
             c.id # anonCat.id /\ c.userId = m.final /\ c.name = anonCat.name

\* faulty variant: the statements already executed stay in the database
KeepPartialWork(dbv, m) == m.work

\* what a failed prisma.$transaction leaves in the database: it is rolled back
Rollback(dbv, m) == dbv

\* ------------------------------------------- merge: the call as a function
\* the loop over anonCategories run to its end; pc "failed" when a turn throws
RECURSIVE RunCategories(_)
RunCategories(m) ==
  IF m.anonCategories = <<>> THEN m
  ELSE IF MergeCategoryThrows(m) THEN [m EXCEPT !.pc = "failed"]
  ELSE RunCategories(MergeCategory(m))

\* the stores the callback of prisma.$transaction may leave behind, one for
\* each order in which the two findMany calls may answer
TransactionOutcomes(dbv, anonUserId, authedUserId, authedEmail) ==
  LET found == FindAuthedUser(dbv, authedUserId, authedEmail) IN
  IF found = None THEN {dbv}
  ELSE {LET m == RunCategories([Idle EXCEPT
                    !.pc = "categories", !.anonUserId = anonUserId,
                    !.authedUserId = authedUserId, !.final = found,
                    !.anonCategories = anonCategories,
                    !.authedByName = MapOf(authedCategories),
                    !.work = dbv, !.pre = dbv])
        IN IF m.pc = "failed" THEN dbv
           ELSE RetireGuest(MoveTransactions(m.work, anonUserId, found), anonUserId)
        : anonCategories \in Orders(CategoriesOf(dbv, anonUserId)),
          authedCategories \in Orders(CategoriesOf(dbv, found))}

\* mergeAnonIntoAuthedUser({authedUserId, authedEmail}) for a request that
\* carries the cookie raw: the stores it may leave behind
mergeAnonIntoAuthedUser(dbv, raw, t, authedUserId, authedEmail) ==
  LET anonUserId == MergeSessionOwner(dbv, raw, t) IN
  IF anonUserId = None \/ anonUserId = authedUserId THEN {dbv}
  ELSE TransactionOutcomes(dbv, anonUserId, authedUserId, authedEmail)

\* POST /api/anon/import of a session with user id authedUserId: the stores it
\* may leave behind (its transaction looks the user up by id only)
ImportOutcomes(dbv, raw, t, authedUserId) ==
  LET anonUserId == ImportSessionOwner(dbv, raw, t) IN
  IF raw = NoToken \/ anonUserId = None \/ anonUserId = authedUserId THEN {dbv}
  ELSE TransactionOutcomes(dbv, anonUserId, authedUserId, NoEmail)

\* ---------------------------------------------------- merge: entry points
\* faulty variant: events.signIn lets the error of the merge escape
MergeReplyUncaught(m, outcome) ==
  [NoReply EXCEPT
     !.op = m.entry, !.dev = m.dev, !.userId = m.authedUserId, !.isAuthed = TRUE,
     !.merge = outcome, !.at = m.pc,
     !.status = IF outcome = "failed" THEN 500
                ELSE IF m.entry = "signIn" THEN 200 ELSE 302,
     !.setCookie = IF m.entry = "import" /\ outcome = "committed"
                     THEN ClearCookie ELSE NoToken,
     !.pre = m.pre, !.anon = m.anonUserId, !.final = m.final]

\* what the caller of the merge answers: events.signIn catches every error of
\* mergeAnonIntoAuthedUser; the import route lets it escape (500) and clears
\* the cookie after the transaction
MergeReply(m, outcome) ==
  [NoReply EXCEPT
     !.op = m.entry, !.dev = m.dev, !.userId = m.authedUserId, !.isAuthed = TRUE,
     !.merge = outcome, !.at = m.pc,
     !.status = IF m.entry = "signIn" THEN 200
                ELSE IF outcome = "failed" THEN 500 ELSE 302,
     !.setCookie = IF m.entry = "import" /\ outcome = "committed"
                     THEN ClearCookie ELSE NoToken,
     !.pre = m.pre, !.anon = m.anonUserId, !.final = m.final]

\* a successful sign-in of account a on device d: the adapter has written the
\* user row, then events.signIn calls mergeAnonIntoAuthedUser with user.id
\* (stale: an id the database does not hold) and user.email (or none)
SignIn(d, a, stale, withEmail) ==
  /\ Quiet
  /\ auth[d] = NoSession \/ auth[d].id = a
  /\ LET db1 == IF UserRows(db, a) # {} THEN db
                ELSE [db EXCEPT !.users = @ \cup {[id |-> a, isAnonymous |-> FALSE,
                                                   email |-> Email(a),
                                                   defaultTransactionsPaymentSourceId |-> None]}]
         authedUserId == IF stale THEN StaleId ELSE a
         anonUserId == MergeSessionOwner(db1, cookie[d], now)
         m == [Idle EXCEPT !.pc = "findAuthed", !.entry = "signIn", !.dev = d,
                           !.anonUserId = anonUserId,
                           !.authedUserId = authedUserId,
                           !.authedEmail = IF withEmail THEN Email(a) ELSE NoEmail,
                           !.work = db1, !.pre = db1]
     IN /\ db' = db1
        /\ auth' = [auth EXCEPT ![d] = [id |-> a, email |-> Email(a)]]
        /\ IF anonUserId = None \/ anonUserId = authedUserId
             THEN /\ mtx' = Idle
                  /\ last' = MergeReply([m EXCEPT !.anonUserId = None], "noop")
             ELSE /\ mtx' = m
                  /\ last' = last
  /\ UNCHANGED <<cookie, now, ctr, merged, reqs>>

\* POST /api/anon/import up to the start of its transaction
ImportPOST(d) ==
  /\ Quiet
  /\ LET authedUserId == auth[d].id
         raw == cookie[d]
         anonUserId == ImportSessionOwner(db, raw, now)
         m == [Idle EXCEPT !.pc = "findAuthed", !.entry = "import", !.dev = d,
                           !.anonUserId = anonUserId,
                           !.authedUserId = authedUserId,
                           !.work = db, !.pre = db]
         early == [MergeReply([m EXCEPT !.anonUserId = None], "noop") EXCEPT
                     !.status = IF authedUserId = None THEN 401 ELSE 302,
                     !.isAuthed = authedUserId # None,
                     !.setCookie = IF authedUserId = None \/ raw = NoToken
                                     THEN NoToken ELSE ClearCookie]
     IN IF authedUserId = None \/ raw = NoToken \/ anonUserId = None
           \/ anonUserId = authedUserId
          THEN mtx' = Idle /\ last' = early
          ELSE mtx' = m /\ last' = last
  /\ UNCHANGED <<db, cookie, auth, now, ctr, merged, reqs>>

\* ------------------------------------------ merge: inside the transaction
\* a statement of the open transaction throws, or the transaction times out
TxFail ==
  /\ mtx.pc # "idle"
  /\ db' = Rollback(db, mtx)
  /\ mtx' = Idle
  /\ last' = MergeReply(mtx, "failed")
  /\ UNCHANGED <<cookie, auth, now, ctr, merged, reqs>>

TxFindAuthed ==
  /\ mtx.pc = "findAuthed"
  /\ LET found == FindAuthedUser(mtx.work, mtx.authedUserId, mtx.authedEmail) IN
       IF found = None
         THEN /\ db' = Rollback(db, mtx)
              /\ mtx' = Idle
              /\ last' = MergeReply(mtx, "failed")
         ELSE /\ db' = db
              /\ mtx' = [mtx EXCEPT !.pc = "loadCategories", !.final = found]
              /\ last' = last
  /\ UNCHANGED <<cookie, auth, now, ctr, merged, reqs>>

TxLoadCategories ==
  /\ mtx.pc = "loadCategories"
  /\ \E anonCategories \in Orders(CategoriesOf(mtx.work, mtx.anonUserId)),
        authedCategories \in Orders(CategoriesOf(mtx.work, mtx.final)) :
       mtx' = [mtx EXCEPT !.pc = "categories",
                          !.anonCategories = anonCategories,
                          !.authedByName = MapOf(authedCategories)]
  /\ UNCHANGED <<db, cookie, auth, now, ctr, last, merged, reqs>>

TxCategory ==
  /\ mtx.pc = "categories"
  /\ mtx.anonCategories # <<>>
  /\ IF MergeCategoryThrows(mtx)
       THEN /\ db' = Rollback(db, mtx)
            /\ mtx' = Idle
            /\ last' = MergeReply(mtx, "failed")
       ELSE /\ db' = db
            /\ mtx' = MergeCategory(mtx)
            /\ last' = last
  /\ UNCHANGED <<cookie, auth, now, ctr, merged, reqs>>

TxMoveTransactions ==
  /\ mtx.pc = "categories"
  /\ mtx.anonCategories = <<>>
  /\ mtx' = [mtx EXCEPT !.pc = "retireGuest",
                        !.work = MoveTransactions(@, mtx.anonUserId, mtx.final)]
  /\ UNCHANGED <<db, cookie, auth, now, ctr, last, merged, reqs>>

TxRetireGuest ==
  /\ mtx.pc = "retireGuest"
  /\ mtx' = [mtx EXCEPT !.pc = "commit",
                        !.work = RetireGuest(@, mtx.anonUserId)]
  /\ UNCHANGED <<db, cookie, auth, now, ctr, last, merged, reqs>>

TxCommit ==
  /\ mtx.pc = "commit"
  /\ db' = mtx.work
  /\ mtx' = Idle
  /\ last' = MergeReply(mtx, "committed")
  /\ merged' = merged \cup {cookie[mtx.dev]}
  /\ UNCHANGED <<cookie, auth, now, ctr, reqs>>

\* the bodies the write requests of each specification carry
CategoryBodies == Names \cup {"", "invalid-json", LongName}
TransactionKinds == {"ok", "invalid-json", "bad-amount"}

\* the merge in full: three names, categorised transactions, no clock
Next ==
  \/ Receive
  \/ \E d \in Devices, body \in CategoryBodies : CategoriesPOST(d, body)
  \/ \E d \in Devices, kind \in TransactionKinds, c \in {None} \cup (1..MaxCats) :
       TransactionsPOST(d, kind, c, None)
  \/ \E d \in Devices : SignOut(d)
  \/ \E d \in Devices, a \in AuthIds, stale, withEmail \in BOOLEAN :
       SignIn(d, a, stale, withEmail)
  \/ \E d \in Devices : ImportPOST(d)
  \/ TxFail
  \/ TxFindAuthed
  \/ TxLoadCategories
  \/ TxCategory
  \/ TxMoveTransactions
  \/ TxRetireGuest
  \/ TxCommit

Spec == Init /\ [][Next]_vars

\* the resolvers in full: the clock, the reads, every state of the cookie;
\* one category name and uncategorised transactions
NextResolve ==
  \/ Tick
  \/ Receive
  \/ \E d \in Devices, body \in {"Food", ""} : CategoriesPOST(d, body)
  \/ \E d \in Devices, kind \in {"ok", "bad-amount"} : TransactionsPOST(d, kind, None, None)
  \/ \E d \in Devices : CategoriesGET(d)
  \/ \E d \in Devices : TransactionsGET(d)
  \/ \E d \in Devices : TransactionsGETUnauthorized(d)
  \/ \E d \in Devices : TransactionsPage(d)
  \/ \E d \in Devices : SignOut(d)
  \/ \E d \in Devices, a \in AuthIds, stale, withEmail \in BOOLEAN :
       SignIn(d, a, stale, withEmail)
  \/ \E d \in Devices : ImportPOST(d)
  \/ TxFail
  \/ TxFindAuthed
  \/ TxLoadCategories
  \/ TxCategory
  \/ TxMoveTransactions
  \/ TxRetireGuest
  \/ TxCommit

SpecResolve == Init /\ [][NextResolve]_vars

\* the merge next to payment sources and the default-source preference: one
\* category name, no clock, no reads
NextScope ==
  \/ Receive
  \/ \E d \in Devices : CategoriesPOST(d, "Food")
  \/ \E d \in Devices, c \in {None} \cup (1..MaxCats),
        p \in {None} \cup (1..MaxSources) : TransactionsPOST(d, "ok", c, p)
  \/ \E d \in Devices, body \in {"Card", ""} : PaymentSourcesPOST(d, body)
  \/ \E d \in Devices, value \in {None} \cup (1..MaxSources) : PreferencesPOST(d, value)
  \/ \E d \in Devices : SignOut(d)
  \/ \E d \in Devices, a \in AuthIds, stale, withEmail \in BOOLEAN :
       SignIn(d, a, stale, withEmail)
  \/ \E d \in Devices : ImportPOST(d)
  \/ TxFail
  \/ TxFindAuthed
  \/ TxLoadCategories
  \/ TxCategory
  \/ TxMoveTransactions
  \/ TxRetireGuest
  \/ TxCommit

SpecScope == Init /\ [][NextScope]_vars

\* --------------------------------------------------------------- discard
\* faulty variant: the discard only clears the cookie
DiscardCookieOnly(dbv, raw, t) == dbv

\* the Discard action of the merge confirmation page (POST /api/anon/discard,
\* whose route the page posts to): the sessions of the guest identity the
\* bearer cookie resolves to are deleted, no data is reassigned
Discard(dbv, raw, t) ==
  LET anonUserId == getUserIdFromAnonCookie(dbv, raw, t) IN
  IF anonUserId = None THEN dbv ELSE DeleteSessions(dbv, anonUserId)

\* POST /api/anon/discard: Discard, and a response that clears the cookie
DiscardPOST(d) ==
  /\ Quiet
  /\ db' = Discard(db, cookie[d], now)
  /\ last' = [NoReply EXCEPT
                !.op = "discard", !.dev = d, !.status = 302,
                !.isAuthed = auth[d] # NoSession,
                !.anon = getUserIdFromAnonCookie(db, cookie[d], now),
                !.setCookie = ClearCookie, !.pre = db]
  /\ UNCHANGED <<cookie, auth, now, ctr, mtx, merged, reqs>>

\* the resolvers and the merge together with the discard
NextDiscard ==
  \/ NextResolve
  \/ \E d \in Devices : DiscardPOST(d)

SpecDiscard == Init /\ [][NextDiscard]_vars

\* --------------------------------------------- transactions: change, delete
\* a field the body of a PATCH does not carry
Absent == -2

\* faulty variant: the transaction is looked up by its id alone
findFirstById(dbv, id, userId) == {t \in dbv.transactions : t.id = id}

\* prisma.transaction.findFirst({where: {id, userId}})
findFirstOwned(dbv, id, userId) ==
  {t \in dbv.transactions : t.id = id /\ t.userId = userId}

\* PATCH /api/finance/transactions?id=: the body carries categoryId and
\* paymentSourceId (None for null, Absent for a field left out) and no other
\* field
TransactionsPATCH(d, id, categoryId, paymentSourceId) ==
  /\ Quiet
  /\ LET r == getUserIdOrNull(db, auth[d], cookie[d], now)
         existing == findFirstOwned(r.db, id, r.userId)
         badCategory == /\ categoryId \notin {None, Absent}
                        /\ ~assertCategoryBelongsToUser(r.db, r.userId, categoryId)
         badSource == /\ paymentSourceId \notin {None, Absent}
                      /\ ~assertPaymentSourceBelongsToUser(r.db, r.userId, paymentSourceId)
         empty == categoryId = Absent /\ paymentSourceId = Absent
         status == IF r.userId = None THEN 401
                   ELSE IF existing = {} THEN 404
                   ELSE IF badCategory \/ badSource \/ empty THEN 400
                   ELSE 200
     IN /\ db' = IF status # 200 THEN r.db
                 ELSE [r.db EXCEPT !.transactions =
                         {IF t.id = id
                            THEN [t EXCEPT
                                    !.categoryId = IF categoryId = Absent THEN @
                                                   ELSE categoryId,
                                    !.paymentSourceId = IF paymentSourceId = Absent THEN @
                                                        ELSE paymentSourceId]
                            ELSE t : t \in @}]
        /\ last' = [NoReply EXCEPT
                      !.op = "TransactionsPATCH", !.dev = d, !.userId = r.userId,
                      !.isAuthed = r.isAuthed, !.status = status, !.body = {id}]
  /\ UNCHANGED <<cookie, auth, now, ctr, mtx, merged, reqs>>

\* DELETE /api/finance/transactions?id=
TransactionsDELETE(d, id) ==
  /\ Quiet
  /\ LET r == getUserIdOrNull(db, auth[d], cookie[d], now)
         existing == findFirstOwned(r.db, id, r.userId)
         status == IF r.userId = None THEN 401
                   ELSE IF existing = {} THEN 404
                   ELSE 200
     IN /\ db' = IF status # 200 THEN r.db
                 ELSE [r.db EXCEPT !.transactions = {t \in @ : t.id # id}]
        /\ last' = [NoReply EXCEPT
                      !.op = "TransactionsDELETE", !.dev = d, !.userId = r.userId,
                      !.isAuthed = r.isAuthed, !.status = status, !.body = {id}]
  /\ UNCHANGED <<cookie, auth, now, ctr, mtx, merged, reqs>>

\* an account and, after it has signed out, a guest on the same device: each
\* creates, changes, deletes and reads transactions, naming any id
NextCrud ==
  \/ Receive
  \/ \E d \in Devices : CategoriesPOST(d, "Food")
  \/ \E d \in Devices, c \in {None} \cup (1..MaxCats), p \in {None} \cup (1..MaxSources) :
       TransactionsPOST(d, "ok", c, p)
  \/ \E d \in Devices : PaymentSourcesPOST(d, "Card")
  \/ \E d \in Devices, id \in 1..MaxTxs, c \in {None, Absent} \cup (1..MaxCats),
        p \in {None, Absent} \cup (1..MaxSources) : TransactionsPATCH(d, id, c, p)
  \/ \E d \in Devices, id \in 1..MaxTxs : TransactionsDELETE(d, id)
  \/ \E d \in Devices : TransactionsGET(d)
  \/ \E d \in Devices : CategoriesGET(d)
  \/ \E d \in Devices : SignOut(d)
  \/ \E d \in Devices, a \in AuthIds : cookie[d] = NoToken /\ SignIn(d, a, FALSE, TRUE)

SpecCrud == Init /\ [][NextCrud]_vars

\* ------------------------------------------------ categories: rename, delete
\* PATCH /api/finance/categories?id= with body {name}: logged-in only
CategoriesPATCH(d, id, name) ==
  /\ Quiet
  /\ LET userId == requireAuthedUserId(db, auth[d])
         bad == name = "" \/ Len(name) > 40
         ok == assertCategoryBelongsToUser(db, userId, id)
         dup == \E c \in db.categories :
                  c.userId = userId /\ c.name = name /\ c.id # id
         status == IF userId = None THEN 401
                   ELSE IF bad THEN 400
                   ELSE IF ~ok THEN 404
                   ELSE IF dup THEN 409
                   ELSE 200
     IN /\ db' = IF status # 200 THEN db
                 ELSE [db EXCEPT !.categories =
                         {IF c.id = id THEN [c EXCEPT !.name = name] ELSE c : c \in @}]
        /\ last' = [NoReply EXCEPT
                      !.op = "CategoriesPATCH", !.dev = d, !.userId = userId,
                      !.isAuthed = userId # None, !.status = status, !.body = {id}]
  /\ UNCHANGED <<cookie, auth, now, ctr, mtx, merged, reqs>>

\* faulty variant: the category to reassign to is not looked up
ReassignTargetUnchecked(dbv, userId, id, target) == target # id

\* DELETE: reassignToCategoryId, when given and not null, is another
\* category of the user
ReassignTargetOk(dbv, userId, id, target) ==
  target # id /\ assertCategoryBelongsToUser(dbv, userId, target)

\* DELETE /api/finance/categories?id= with body {reassignToCategoryId} (None
\* for null, Absent for a body without it): logged-in only
CategoriesDELETE(d, id, reassignToCategoryId) ==
  /\ Quiet
  /\ LET userId == requireAuthedUserId(db, auth[d])
         ok == assertCategoryBelongsToUser(db, userId, id)
         badTarget == /\ reassignToCategoryId \notin {None, Absent}
                      /\ ~ReassignTargetOk(db, userId, id, reassignToCategoryId)
         to == IF reassignToCategoryId = Absent THEN None ELSE reassignToCategoryId
         status == IF userId = None THEN 401
                   ELSE IF ~ok THEN 404
                   ELSE IF badTarget THEN 400
                   ELSE 200
     IN /\ db' = IF status # 200 THEN db
                 ELSE DeleteCategory(RedirectTransactions(db, userId, id, to), id)
        /\ last' = [NoReply EXCEPT
                      !.op = "CategoriesDELETE", !.dev = d, !.userId = userId,
                      !.isAuthed = userId # None, !.status = status, !.body = {id},
                      !.pre = db]
  /\ UNCHANGED <<cookie, auth, now, ctr, mtx, merged, reqs>>

\* every operation on categories and transactions, the sign-in merge and the
\* import, one at a time
NextOwnership ==
  \/ Receive
  \/ \E d \in Devices, body \in {"Food", "food"} : CategoriesPOST(d, body)
  \/ \E d \in Devices, c \in {None} \cup (1..MaxCats) : TransactionsPOST(d, "ok", c, None)
  \/ \E d \in Devices, id \in 1..MaxTxs, c \in {None} \cup (1..MaxCats) :
       TransactionsPATCH(d, id, c, Absent)
  \/ \E d \in Devices, id \in 1..MaxTxs : TransactionsDELETE(d, id)
  \/ \E d \in Devices, id \in 1..MaxCats, name \in {"Food", "Rent"} :
       CategoriesPATCH(d, id, name)
  \/ \E d \in Devices, id \in 1..MaxCats, to \in {None, Absent} \cup (1..MaxCats) :
       CategoriesDELETE(d, id, to)
  \/ \E d \in Devices : SignOut(d)
  \/ \E d \in Devices, a \in AuthIds, stale \in BOOLEAN : SignIn(d, a, stale, ~stale)
  \/ \E d \in Devices : ImportPOST(d)
  \/ TxFail
  \/ TxFindAuthed
  \/ TxLoadCategories
  \/ TxCategory
  \/ TxMoveTransactions
  \/ TxRetireGuest
  \/ TxCommit

SpecOwnership == Init /\ [][NextOwnership]_vars

\* ------------------------------------------------- requests in parallel
\* faulty variant: the token generator repeats itself
randomBytesRepeating(k) == Token(1)

\* crypto.randomBytes(32): the k-th draw, different from every earlier one
randomBytes(k) == Token(k)

\* a write request of device d arrives, carrying the device's cookie and
\* authenticated session as they are now
WriteBegin(r, d, op, body) ==
  /\ reqs[r].pc = "idle"
  /\ reqs' = [reqs EXCEPT ![r] = [NoRequest EXCEPT
                !.pc = "resolve", !.op = op, !.dev = d, !.raw = cookie[d],
                !.sess = auth[d], !.body = body]]
  /\ UNCHANGED <<db, cookie, auth, now, ctr, mtx, last, merged>>

\* getUserIdOrCreateAnonForWrite, first half: getUserIdOrNull
WriteResolve(r) ==
  /\ reqs[r].pc = "resolve"
  /\ LET existing == getUserIdOrNull(db, reqs[r].sess, reqs[r].raw, now) IN
       /\ db' = existing.db
       /\ reqs' = [reqs EXCEPT ![r] = [@ EXCEPT
                     !.pc = IF existing.userId # None THEN "create" ELSE "provision",
                     !.userId = existing.userId,
                     !.isAuthed = existing.isAuthed]]
  /\ UNCHANGED <<cookie, auth, now, ctr, mtx, last, merged>>

\* getUserIdOrCreateAnonForWrite, second half: one prisma.user.create with
\* the nested session; it throws when tokenHash is already taken
WriteProvision(r) ==
  /\ reqs[r].pc = "provision"
  /\ ctr.guests < MaxGuests
  /\ LET k == ctr.guests + 1
         token == randomBytes(k)
         taken == SessionsByHash(db, hashToken(token)) # {}
     IN /\ ctr' = [ctr EXCEPT !.guests = k]
        /\ db' = IF taken THEN db
                 ELSE [db EXCEPT
                        !.users = @ \cup {[id |-> GuestId(k), isAnonymous |-> TRUE,
                                           email |-> NoEmail,
                                           defaultTransactionsPaymentSourceId |-> None]},
                        !.sessions = @ \cup {[id |-> k, userId |-> GuestId(k),
                                              tokenHash |-> hashToken(token),
                                              expiresAt |-> now + ANON_MAX_AGE,
                                              lastSeenAt |-> now]}]
        /\ reqs' = [reqs EXCEPT ![r] =
                     IF taken THEN [@ EXCEPT !.pc = "respond", !.status = 500]
                     ELSE [@ EXCEPT !.pc = "create", !.userId = GuestId(k),
                                    !.provisioned = GuestId(k), !.setCookie = token]]
  /\ UNCHANGED <<cookie, auth, now, mtx, last, merged>>

\* an open merge transaction has deleted the user row and not yet committed:
\* an insert that refers to the user waits for the row lock
UserRowLocked(userId) ==
  \E o \in Requests : reqs[o].tx.del.users # {} /\ userId \in reqs[o].tx.del.users

\* the rest of the POST handler: body validation, then the create; the
\* create throws when the owner's user row is gone (the categories route
\* answers every failed create with 409, the transactions route lets it
\* escape)
WriteCreate(r) ==
  /\ reqs[r].pc = "create"
  /\ ~UserRowLocked(reqs[r].userId)
  /\ LET q == reqs[r]
         isCategory == q.op = "CategoriesPOST"
         bad == IF isCategory
                  THEN q.body = "invalid-json" \/ q.body = "" \/ Len(q.body) > 40
                  ELSE q.body # "ok"
         orphan == UserRows(db, q.userId) = {}
         dup == ~bad /\ \/ isCategory /\ \E c \in db.categories :
                                           c.userId = q.userId /\ c.name = q.body
                        \/ orphan
         made == ~bad /\ ~dup
         id == IF isCategory THEN ctr.cats + 1 ELSE ctr.txs + 1
     IN /\ made => IF isCategory THEN ctr.cats < MaxCats ELSE ctr.txs < MaxTxs
        /\ ctr' = [ctr EXCEPT !.cats = IF made /\ isCategory THEN @ + 1 ELSE @,
                              !.txs = IF made /\ ~isCategory THEN @ + 1 ELSE @]
        /\ db' = IF ~made THEN db
                 ELSE IF isCategory
                   THEN [db EXCEPT !.categories =
                           @ \cup {[id |-> id, userId |-> q.userId, name |-> q.body]}]
                   ELSE [db EXCEPT !.transactions =
                           @ \cup {[id |-> id, userId |-> q.userId,
                                    categoryId |-> None, paymentSourceId |-> None]}]
        /\ reqs' = [reqs EXCEPT ![r] = [@ EXCEPT
                      !.pc = "respond",
                      !.status = IF bad THEN 400
                                 ELSE IF dup THEN (IF isCategory THEN 409 ELSE 500)
                                 ELSE 201,
                      !.created = IF made THEN id ELSE None]]
  /\ UNCHANGED <<cookie, auth, now, mtx, last, merged>>

\* the browser receives the response: a 201 carries the Set-Cookie header
WriteRespond(r) ==
  /\ reqs[r].pc = "respond"
  /\ cookie' = IF reqs[r].status = 201
                 THEN ApplySetCookie(cookie, reqs[r].dev, reqs[r].setCookie)
                 ELSE cookie
  /\ reqs' = [reqs EXCEPT ![r] = [@ EXCEPT !.pc = "done"]]
  /\ UNCHANGED <<db, auth, now, ctr, mtx, last, merged>>

\* write requests of one client racing each other
NextProvision ==
  \/ \E r \in Requests, d \in Devices, body \in {"Food", "Rent", ""} :
       WriteBegin(r, d, "CategoriesPOST", body)
  \/ \E r \in Requests, d \in Devices, body \in {"ok", ""} :
       WriteBegin(r, d, "TransactionsPOST", body)
  \/ \E r \in Requests : WriteResolve(r)
  \/ \E r \in Requests : WriteProvision(r)
  \/ \E r \in Requests : WriteCreate(r)
  \/ \E r \in Requests : WriteRespond(r)

SpecProvision == Init /\ [][NextProvision]_vars

\* ------------------------------------------- reads in parallel to a merge
\* faulty variant: the merge writes through the shared client instead of tx,
\* so its statements are visible as soon as they are executed
ReadUncommitted(dbv, m) == IF m.pc # "idle" THEN m.work ELSE dbv

\* the store a statement outside the transaction sees: what is committed
ReadCommitted(dbv, m) == dbv

\* a read request of device d arrives
ReadBegin(r, d, op) ==
  /\ reqs[r].pc = "idle"
  /\ reqs' = [reqs EXCEPT ![r] = [NoRequest EXCEPT
                !.pc = "resolve", !.op = op, !.dev = d, !.raw = cookie[d],
                !.sess = auth[d]]]
  /\ UNCHANGED <<db, cookie, auth, now, ctr, mtx, last, merged>>

\* getUserIdOrNull of the GET handler; json([]) when it finds no owner. The
\* lastSeenAt update reaches the committed row and, while a merge is open,
\* the transaction's view of it if the transaction has not deleted the row
ReadResolve(r) ==
  /\ reqs[r].pc = "resolve"
  /\ LET seen == ReadCommitted(db, mtx)
         existing == getUserIdOrNull(seen, reqs[r].sess, reqs[r].raw, now)
     IN /\ db' = TouchLastSeen(db, reqs[r].raw, now)
        /\ mtx' = IF mtx.pc = "idle" THEN mtx
                  ELSE [mtx EXCEPT !.work = TouchLastSeen(@, reqs[r].raw, now),
                                   !.pre = TouchLastSeen(@, reqs[r].raw, now)]
        /\ reqs' = [reqs EXCEPT ![r] = [@ EXCEPT
                      !.pc = IF existing.userId # None THEN "find" ELSE "done",
                      !.userId = existing.userId,
                      !.isAuthed = existing.isAuthed,
                      !.status = IF existing.userId # None THEN 0 ELSE 200]]
  /\ UNCHANGED <<cookie, auth, now, ctr, last, merged>>

\* the findMany of the GET handler: one statement, the owner's rows
ReadFind(r) ==
  /\ reqs[r].pc = "find"
  /\ LET seen == ReadCommitted(db, mtx)
         rows == IF reqs[r].op = "CategoriesGET"
                   THEN CategoriesOf(seen, reqs[r].userId)
                   ELSE TransactionsOf(seen, reqs[r].userId)
     IN reqs' = [reqs EXCEPT ![r] = [@ EXCEPT
                   !.pc = "done", !.status = 200, !.rows = rows,
                   !.during = mtx.pc # "idle",
                   !.pre = IF mtx.pc # "idle" THEN mtx.pre ELSE db]]
  /\ UNCHANGED <<db, cookie, auth, now, ctr, mtx, last, merged>>

\* the requests that read while a merge runs
Readers == {r \in Requests : r <= MaxReaders}

\* the merge with read requests running beside it: two names that collide,
\* writes one at a time
NextIsolation ==
  \/ Receive
  \/ \E d \in Devices, body \in {"Food", "food"} : CategoriesPOST(d, body)
  \/ \E d \in Devices, c \in {None, 1} : TransactionsPOST(d, "ok", c, None)
  \/ \E d \in Devices, a \in AuthIds : SignIn(d, a, FALSE, TRUE)
  \/ \E d \in Devices : ImportPOST(d)
  \/ TxFail
  \/ TxFindAuthed
  \/ TxLoadCategories
  \/ TxCategory
  \/ TxMoveTransactions
  \/ TxRetireGuest
  \/ TxCommit
  \/ \E r \in Readers, d \in Devices, op \in {"CategoriesGET", "TransactionsGET"} :
       ReadBegin(r, d, op)
  \/ \E r \in Readers : ReadResolve(r)
  \/ \E r \in Readers : ReadFind(r)

SpecIsolation == Init /\ [][NextIsolation]_vars

\* ------------------------------------------------ the lastSeenAt update
\* faulty variant: the rejection of the update reaches the request
TouchRejectedUncaught(q) == [q EXCEPT !.touch = "failed", !.pc = "done", !.status = 500]

\* .catch(() => {}) on the update's promise: a rejection is swallowed
TouchRejected(q) == [q EXCEPT !.touch = "failed"]

\* prisma.anonSession.update({where: {id}, data: {lastSeenAt: new Date()}})
UpdateLastSeen(dbv, id, t) ==
  [dbv EXCEPT !.sessions =
     {IF x.id = id THEN [x EXCEPT !.lastSeenAt = t] ELSE x : x \in @}]

\* getUserIdOrNull of a GET handler up to the return of
\* getUserIdFromAnonCookie: the update of lastSeenAt is started, not awaited
TouchResolve(r) ==
  /\ reqs[r].pc = "resolve"
  /\ LET q == reqs[r]
         authed == getUserIdFromNextAuth(db, q.sess)
         anon == getUserIdFromAnonCookie(db, q.raw, now)
         userId == IF authed # None THEN authed ELSE anon
         started == authed = None /\ anon # None
     IN reqs' = [reqs EXCEPT ![r] = [@ EXCEPT
                   !.pc = IF userId # None THEN "find" ELSE "done",
                   !.userId = userId,
                   !.isAuthed = authed # None,
                   !.status = IF userId # None THEN 0 ELSE 200,
                   !.touch = IF started THEN "pending" ELSE "none",
                   !.touchId = IF started
                                 THEN (CHOOSE x \in SessionsByHash(db, hashToken(q.raw)) : TRUE).id
                                 ELSE None]]
  /\ UNCHANGED <<db, cookie, auth, now, ctr, mtx, last, merged>>

\* the update started by TouchResolve is executed by the database, at any
\* time after it was started: it changes the row if the row is still there
\* and is rejected otherwise; it waits while an open transaction has deleted
\* the row and not yet committed
TouchRun(r) ==
  /\ reqs[r].touch = "pending"
  /\ LET id == reqs[r].touchId
         there == \E x \in db.sessions : x.id = id
     IN /\ (mtx.pc # "idle" /\ there) => \E x \in mtx.work.sessions : x.id = id
        /\ db' = UpdateLastSeen(db, id, now)
        /\ mtx' = IF mtx.pc = "idle" THEN mtx
                  ELSE [mtx EXCEPT !.work = UpdateLastSeen(@, id, now),
                                   !.pre = UpdateLastSeen(@, id, now)]
        /\ reqs' = [reqs EXCEPT ![r] =
                     IF there THEN [@ EXCEPT !.touch = "done"] ELSE TouchRejected(@)]
  /\ UNCHANGED <<cookie, auth, now, ctr, last, merged>>

\* read requests whose lastSeenAt update runs on its own, next to the merge
\* and the clock
NextTouch ==
  \/ Tick
  \/ Receive
  \/ \E d \in Devices : CategoriesPOST(d, "Food")
  \/ \E d \in Devices : SignOut(d)
  \/ \E d \in Devices, a \in AuthIds : SignIn(d, a, FALSE, TRUE)
  \/ TxFail
  \/ TxFindAuthed
  \/ TxLoadCategories
  \/ TxCategory
  \/ TxMoveTransactions
  \/ TxRetireGuest
  \/ TxCommit
  \/ \E r \in Readers, d \in Devices : ReadBegin(r, d, "CategoriesGET")
  \/ \E r \in Readers : TouchResolve(r)
  \/ \E r \in Readers : TouchRun(r)
  \/ \E r \in Readers : ReadFind(r)

SpecTouch == Init /\ [][NextTouch]_vars

\* ---------------------------------------------------- merges in parallel
\* the store as the statements of transaction tx see it: what is committed,
\* with the transaction's own uncommitted writes on top
View(dbv, tx) ==
  [users |-> {x \in dbv.users : x.id \notin Ids(tx.put.users) \cup tx.del.users}
               \cup tx.put.users,
   sessions |-> {x \in dbv.sessions : x.id \notin Ids(tx.put.sessions) \cup tx.del.sessions}
                  \cup tx.put.sessions,
   categories |-> {x \in dbv.categories :
                     x.id \notin Ids(tx.put.categories) \cup tx.del.categories}
                    \cup tx.put.categories,
   transactions |-> {x \in dbv.transactions :
                       x.id \notin Ids(tx.put.transactions) \cup tx.del.transactions}
                      \cup tx.put.transactions,
   paymentSources |-> {x \in dbv.paymentSources :
                         x.id \notin Ids(tx.put.paymentSources) \cup tx.del.paymentSources}
                        \cup tx.put.paymentSources]

\* the rows in which store v differs from store dbv
PutOf(dbv, v) ==
  [users |-> v.users \ dbv.users, sessions |-> v.sessions \ dbv.sessions,
   categories |-> v.categories \ dbv.categories,
   transactions |-> v.transactions \ dbv.transactions,
   paymentSources |-> v.paymentSources \ dbv.paymentSources]

\* the ids of the rows of store dbv that store v does not hold
DelOf(dbv, v) ==
  [users |-> Ids(dbv.users) \ Ids(v.users),
   sessions |-> Ids(dbv.sessions) \ Ids(v.sessions),
   categories |-> Ids(dbv.categories) \ Ids(v.categories),
   transactions |-> Ids(dbv.transactions) \ Ids(v.transactions),
   paymentSources |-> Ids(dbv.paymentSources) \ Ids(v.paymentSources)]

\* a statement that turns view v into view w needs the row locks of the rows
\* it changes or deletes; transaction tx holds the locks of the rows it wrote
Conflict(v, w, tx) ==
  \/ (Ids(PutOf(v, w).users) \cup DelOf(v, w).users)
       \cap (Ids(tx.put.users) \cup tx.del.users) # {}
  \/ (Ids(PutOf(v, w).sessions) \cup DelOf(v, w).sessions)
       \cap (Ids(tx.put.sessions) \cup tx.del.sessions) # {}
  \/ (Ids(PutOf(v, w).categories) \cup DelOf(v, w).categories)
       \cap (Ids(tx.put.categories) \cup tx.del.categories) # {}
  \/ (Ids(PutOf(v, w).transactions) \cup DelOf(v, w).transactions)
       \cap (Ids(tx.put.transactions) \cup tx.del.transactions) # {}

\* the merge of request r as the record the statements of the merge work on
MergeOf(q) ==
  [Idle EXCEPT !.pc = q.pc, !.entry = q.op, !.dev = q.dev,
               !.anonUserId = q.tx.anonUserId, !.authedUserId = q.tx.authedUserId,
               !.authedEmail = q.tx.authedEmail, !.final = q.tx.final,
               !.anonCategories = q.tx.anonCategories,
               !.authedByName = q.tx.authedByName,
               !.work = View(db, q.tx), !.pre = q.pre]

\* the transaction of request q is open
Open(q) == q.pc \in {"findAuthed", "loadCategories", "categories", "retireGuest", "commit"}

\* the view after the next statement of the transaction of request q
AfterStatement(q) ==
  LET m == MergeOf(q) IN
  IF q.pc = "categories" /\ q.tx.anonCategories # <<>>
    THEN IF MergeCategoryThrows(m) THEN m.work ELSE MergeCategory(m).work
  ELSE IF q.pc = "categories"
    THEN MoveTransactions(m.work, m.anonUserId, m.final)
  ELSE IF q.pc = "retireGuest" THEN RetireGuest(m.work, m.anonUserId)
  ELSE m.work

\* the next statement of request r waits for a row lock of request o
WaitsFor(r, o) ==
  /\ r # o
  /\ Open(reqs[r]) /\ Open(reqs[o])
  /\ Conflict(View(db, reqs[r].tx), AfterStatement(reqs[r]), reqs[o].tx)

Waits(r) == \E o \in Requests : WaitsFor(r, o)

\* faulty variant: a failure of the transaction is swallowed by the import
\* route as well
MergeAnswerLenient(q, outcome) ==
  [q EXCEPT !.pc = "done", !.merge = outcome, !.tx = NoTx,
            !.status = IF q.op = "signIn" THEN 200 ELSE 302,
            !.setCookie = IF q.op = "import" /\ outcome # "failed"
                            THEN ClearCookie ELSE NoToken]

\* the end of a merge request: events.signIn answers nothing and swallows a
\* failure, the import route redirects, clearing the cookie, or lets the
\* failure escape
MergeAnswer(q, outcome) ==
  [q EXCEPT !.pc = "done", !.merge = outcome, !.tx = NoTx,
            !.status = IF q.op = "signIn" THEN 200
                       ELSE IF outcome = "failed" THEN 500 ELSE 302,
            !.setCookie = IF q.op = "import" /\ outcome # "failed"
                            THEN ClearCookie ELSE NoToken]

\* the slot holds no request, or one that returned before its transaction
Free(q) == q.pc = "idle" \/ (q.pc = "done" /\ q.merge = "noop")

\* a sign-in event of account a on device d: the adapter's user row, then
\* mergeAnonIntoAuthedUser is called, beside whatever else is running
SignInBegin(r, d, a) ==
  /\ Quiet
  /\ Free(reqs[r])
  /\ auth[d] = NoSession \/ auth[d].id = a
  /\ db' = IF UserRows(db, a) # {} THEN db
           ELSE [db EXCEPT !.users = @ \cup {[id |-> a, isAnonymous |-> FALSE,
                                              email |-> Email(a),
                                              defaultTransactionsPaymentSourceId |-> None]}]
  /\ auth' = [auth EXCEPT ![d] = [id |-> a, email |-> Email(a)]]
  /\ reqs' = [reqs EXCEPT ![r] = [NoRequest EXCEPT
                !.pc = "session", !.op = "signIn", !.dev = d, !.raw = cookie[d],
                !.sess = [id |-> a, email |-> Email(a)], !.isAuthed = TRUE]]
  /\ UNCHANGED <<cookie, now, ctr, mtx, last, merged>>

\* POST /api/anon/import of a signed-in device arrives
ImportBegin(r, d) ==
  /\ Quiet
  /\ Free(reqs[r])
  /\ auth[d].id # None
  /\ reqs' = [reqs EXCEPT ![r] = [NoRequest EXCEPT
                !.pc = "session", !.op = "import", !.dev = d, !.raw = cookie[d],
                !.sess = auth[d], !.isAuthed = TRUE]]
  /\ UNCHANGED <<db, cookie, auth, now, ctr, mtx, last, merged>>

\* the lookup of the bearer session before the transaction; the early returns
MergeSession(r) ==
  /\ reqs[r].pc = "session"
  /\ LET q == reqs[r]
         anonUserId == IF q.op = "import" THEN ImportSessionOwner(db, q.raw, now)
                       ELSE MergeSessionOwner(db, q.raw, now)
         early == q.raw = NoToken \/ anonUserId = None \/ anonUserId = q.sess.id
     IN reqs' = [reqs EXCEPT ![r] =
                  IF early
                    THEN [MergeAnswer(q, "noop") EXCEPT
                            !.setCookie = IF q.op = "import" /\ q.raw # NoToken
                                            THEN ClearCookie ELSE NoToken]
                    ELSE [q EXCEPT !.pc = "findAuthed", !.userId = anonUserId,
                                   !.pre = db,
                                   !.tx = [NoTx EXCEPT
                                      !.anonUserId = anonUserId,
                                      !.authedUserId = q.sess.id,
                                      !.authedEmail = IF q.op = "signIn"
                                                        THEN q.sess.email ELSE NoEmail]]]
  /\ UNCHANGED <<db, cookie, auth, now, ctr, mtx, last, merged>>

\* tx.user.findUnique by id, then (sign-in merge) by email; throws if none
MergeFindAuthed(r) ==
  /\ reqs[r].pc = "findAuthed"
  /\ LET q == reqs[r]
         found == FindAuthedUser(View(db, q.tx), q.tx.authedUserId, q.tx.authedEmail)
     IN reqs' = [reqs EXCEPT ![r] =
                  IF found = None THEN MergeAnswer(q, "failed")
                  ELSE [q EXCEPT !.pc = "loadCategories", !.tx.final = found]]
  /\ UNCHANGED <<db, cookie, auth, now, ctr, mtx, last, merged>>

\* the two tx.category.findMany
MergeLoadCategories(r) ==
  /\ reqs[r].pc = "loadCategories"
  /\ LET q == reqs[r]
         v == View(db, q.tx)
     IN \E anonCategories \in Orders(CategoriesOf(v, q.tx.anonUserId)),
           authedCategories \in Orders(CategoriesOf(v, q.tx.final)) :
          reqs' = [reqs EXCEPT ![r] = [q EXCEPT
                     !.pc = "categories",
                     !.tx.anonCategories = anonCategories,
                     !.tx.authedByName = MapOf(authedCategories)]]
  /\ UNCHANGED <<db, cookie, auth, now, ctr, mtx, last, merged>>

\* the guest of the open transaction of request q is about to be deleted
\* while categories or transactions committed beside the transaction still
\* belong to it
StillOwning(q) ==
  LET v == View(db, q.tx) IN
  /\ \E u \in UserRows(v, q.tx.anonUserId) : u.isAnonymous
  /\ CategoriesOf(v, q.tx.anonUserId) \cup TransactionsOf(v, q.tx.anonUserId) # {}

\* what ON DELETE CASCADE of Category.userId and Transaction.userId removes
\* with the user
DeleteOwned(dbv, userId) ==
  [dbv EXCEPT !.categories = {c \in @ : c.userId # userId},
              !.transactions = {t \in @ : t.userId # userId}]

\* a writing statement of the open transaction (a turn of the category loop,
\* the blanket reassignment, the deletion of sessions and guest), once it
\* holds the row locks it needs; a turn that throws ends the transaction
MergeStatement(r) ==
  /\ reqs[r].pc \in {"categories", "retireGuest"}
  /\ reqs[r].pc = "retireGuest" => ~StillOwning(reqs[r])
  /\ ~Waits(r)
  /\ LET q == reqs[r]
         m == MergeOf(q)
         w == AfterStatement(q)
         turn == q.pc = "categories" /\ q.tx.anonCategories # <<>>
     IN reqs' = [reqs EXCEPT ![r] =
                  IF turn /\ MergeCategoryThrows(m) THEN MergeAnswer(q, "failed")
                  ELSE [q EXCEPT
                          !.pc = IF turn THEN "categories"
                                 ELSE IF q.pc = "categories" THEN "retireGuest"
                                 ELSE "commit",
                          !.tx.anonCategories = IF turn THEN Tail(@) ELSE @,
                          !.tx.authedByName = IF turn THEN MergeCategory(m).authedByName
                                              ELSE @,
                          !.tx.put = PutOf(db, w),
                          !.tx.del = DelOf(db, w)]]
  /\ UNCHANGED <<db, cookie, auth, now, ctr, mtx, last, merged>>

\* tx.anonSession.deleteMany and tx.user.deleteMany for a guest that still
\* owns rows: the foreign keys of Category.userId and Transaction.userId
\* either reject the delete (the transaction fails) or delete the rows with
\* the user, depending on their ON DELETE rule
MergeRetireOwning(r) ==
  /\ reqs[r].pc = "retireGuest"
  /\ StillOwning(reqs[r])
  /\ ~Waits(r)
  /\ LET q == reqs[r]
         w == DeleteOwned(RetireGuest(View(db, q.tx), q.tx.anonUserId), q.tx.anonUserId)
     IN \E rule \in {"restrict", "cascade"} :
          reqs' = [reqs EXCEPT ![r] =
                     IF rule = "restrict" THEN MergeAnswer(q, "failed")
                     ELSE [q EXCEPT !.pc = "commit",
                                    !.tx.put = PutOf(db, w),
                                    !.tx.del = DelOf(db, w)]]
  /\ UNCHANGED <<db, cookie, auth, now, ctr, mtx, last, merged>>

\* two transactions wait for each other's row locks: the database ends one
\* of them with a deadlock error
MergeDeadlock(r) ==
  /\ \E o \in Requests : WaitsFor(r, o) /\ WaitsFor(o, r)
  /\ reqs' = [reqs EXCEPT ![r] = MergeAnswer(@, "failed")]
  /\ UNCHANGED <<db, cookie, auth, now, ctr, mtx, last, merged>>

\* the transaction commits: its writes become the committed store
MergeCommit(r) ==
  /\ reqs[r].pc = "commit"
  /\ db' = View(db, reqs[r].tx)
  /\ reqs' = [reqs EXCEPT ![r] = MergeAnswer(@, "committed")]
  /\ merged' = merged \cup {reqs[r].raw}
  /\ UNCHANGED <<cookie, auth, now, ctr, mtx, last>>

\* no merge request is under way and none has gone past its early returns
AllIdle == \A r \in Requests : Free(reqs[r])

\* a guest and an account fill their stores one request at a time, then
\* sign-in events and imports of the same device run beside each other
NextRedundant ==
  \/ Receive
  \/ \E d \in Devices, body \in {"Food", "food"} : AllIdle /\ CategoriesPOST(d, body)
  \/ \E d \in Devices, c \in {None, 1} :
       AllIdle /\ TransactionsPOST(d, "ok", c, None)
  \/ \E d \in Devices : AllIdle /\ SignOut(d)
  \/ \E r \in Requests, d \in Devices, a \in AuthIds : SignInBegin(r, d, a)
  \/ \E r \in Requests, d \in Devices : ImportBegin(r, d)
  \/ \E r \in Requests : MergeSession(r)
  \/ \E r \in Requests : MergeFindAuthed(r)
  \/ \E r \in Requests : MergeLoadCategories(r)
  \/ \E r \in Requests : MergeStatement(r)
  \/ \E r \in Requests : MergeDeadlock(r)
  \/ \E r \in Requests : MergeCommit(r)

SpecRedundant == Init /\ [][NextRedundant]_vars

\* a guest's write requests beside the merge of that guest: the guest fills
\* its store, then one sign-in event runs beside one more write request
NextRace ==
  \/ Receive
  \/ \E d \in Devices : AllIdle /\ CategoriesPOST(d, "Food")
  \/ \E d \in Devices : AllIdle /\ TransactionsPOST(d, "ok", None, None)
  \/ \E r \in Requests, d \in Devices, a \in AuthIds : SignInBegin(r, d, a)
  \/ \E r \in Requests : MergeSession(r)
  \/ \E r \in Requests : MergeFindAuthed(r)
  \/ \E r \in Requests : MergeLoadCategories(r)
  \/ \E r \in Requests : MergeStatement(r)
  \/ \E r \in Requests : MergeRetireOwning(r)
  \/ \E r \in Requests : MergeCommit(r)
  \/ \E r \in Requests, d \in Devices : WriteBegin(r, d, "CategoriesPOST", "Rent")
  \/ \E r \in Requests, d \in Devices : WriteBegin(r, d, "TransactionsPOST", "ok")
  \/ \E r \in Requests : WriteResolve(r)
  \/ \E r \in Requests : WriteProvision(r)
  \/ \E r \in Requests : WriteCreate(r)
  \/ \E r \in Requests : WriteRespond(r)

SpecRace == Init /\ [][NextRace]_vars

\* ================================================================ claims
ReadOps == {"CategoriesGET", "TransactionsGET", "TransactionsGETUnauthorized",
            "TransactionsPage"}
WriteOps == {"CategoriesPOST", "TransactionsPOST"}

\* the merge transaction of the pending reply committed
Committed == last.merge = "committed"

\* the session rows a bearer token stands for, and the ones still in date
SessionFor(dbv, raw) == {x \in dbv.sessions : x.tokenHash = hashToken(raw)}
InDate(x) == x.expiresAt = None \/ x.expiresAt >= now
ValidSessions(dbv, raw) ==
  IF raw = NoToken THEN {} ELSE {x \in SessionFor(dbv, raw) : InDate(x)}

\* the guest categories the merge replaced by a category of the same name
Replaced == {c \in CategoriesOf(last.pre, last.anon) : c.id \notin Ids(db.categories)}

\* C1 (no data loss): after a committed merge every transaction the guest
\* owned before it still exists and belongs to the identity merged into, and
\* every category the guest owned either belongs to that identity or was
\* replaced by one of its categories with the same case-insensitive name,
\* which now holds all the transactions of the replaced category.
C1_NoDataLoss ==
  Committed =>
    /\ \A t \in TransactionsOf(last.pre, last.anon) :
         \E t2 \in db.transactions : t2.id = t.id /\ t2.userId = last.final
    /\ \A c \in CategoriesOf(last.pre, last.anon) :
         \/ \E c2 \in db.categories : c2.id = c.id /\ c2.userId = last.final
         \/ \E c2 \in db.categories :
              /\ c2.userId = last.final
              /\ toLowerCase(c2.name) = toLowerCase(c.name)
              /\ \A t \in last.pre.transactions :
                   t.categoryId = c.id =>
                     \E t2 \in db.transactions :
                       t2.id = t.id /\ t2.categoryId = c2.id

\* a merge committed that replaced a guest category holding a transaction
\* and moved another guest transaction
C1_Witness ==
  /\ Committed
  /\ \E c \in Replaced : \E t \in last.pre.transactions : t.categoryId = c.id
  /\ Cardinality(TransactionsOf(last.pre, last.anon)) >= 2

\* C2 (atomicity): while the merge transaction is open the database is what
\* it was when the transaction started, and after a transaction that failed
\* at any step (the authenticated user not found included) the database is
\* exactly what it was before the merge.
C2_Atomicity ==
  /\ mtx.pc # "idle" => db = mtx.pre
  /\ last.merge = "failed" => db = last.pre

\* a transaction failed after it had reconciled categories, moved the
\* transactions and retired the guest
C2_Witness ==
  /\ last.merge = "failed"
  /\ last.at = "commit"
  /\ CategoriesOf(last.pre, last.anon) # {}
  /\ TransactionsOf(last.pre, last.anon) # {}

\* a merge entry point runs for device d in this step
MergeInvoked(d) ==
  /\ mtx.pc = "idle"
  /\ \/ mtx'.pc = "findAuthed" /\ mtx'.dev = d
     \/ last' # last /\ last'.op \in {"signIn", "import"} /\ last'.dev = d

\* C3 (idempotence): a merge invoked with a bearer token whose merge has
\* already committed, for an identity the database holds, changes nothing in
\* the database, opens no transaction and raises no error.
C3_Idempotence ==
  [][\A d \in Devices :
       (/\ MergeInvoked(d)
        /\ cookie[d] \in merged
        /\ auth'[d].id # None
        /\ UserRows(db, auth'[d].id) # {})
       => /\ db' = db
          /\ mtx'.pc = "idle"
          /\ last'.merge = "noop"
          /\ last'.status # 500]_vars

\* the sign-in merge ran a second time with the token it had merged
C3_Witness ==
  /\ last.op = "signIn"
  /\ last.merge = "noop"
  /\ cookie[last.dev] \in merged

\* C4 (referential integrity): after a committed merge every transaction with
\* a category refers to a category that exists and has the same owner.
C4_ReferentialIntegrity ==
  Committed =>
    \A t \in db.transactions :
      t.categoryId # None =>
        \E c \in db.categories : c.id = t.categoryId /\ c.userId = t.userId

\* a merge committed that deleted a guest category which held a transaction
C4_Witness ==
  /\ Committed
  /\ \E c \in Replaced : \E t \in last.pre.transactions : t.categoryId = c.id

\* two categories of the identity merged into share a case-insensitive name
Twins(c1, c2) ==
  /\ c1.id # c2.id
  /\ c1.userId = last.final
  /\ c2.userId = last.final
  /\ toLowerCase(c1.name) = toLowerCase(c2.name)

\* C5 as claimed (no duplicate categories): after a committed merge no two
\* categories of the authenticated identity share a case-insensitive name.
C5_NoDuplicates ==
  Committed => \A c1, c2 \in db.categories : ~Twins(c1, c2)

\* C5 as amended: after a committed merge, two categories of the
\* authenticated identity share a case-insensitive name only if that identity
\* owned both of them before the merge.
C5_NoNewDuplicates ==
  Committed =>
    \A c1, c2 \in db.categories :
      Twins(c1, c2) =>
        {c1.id, c2.id} \subseteq Ids(CategoriesOf(last.pre, last.final))

\* a merge committed whose guest owned two categories differing only in case
C5_Witness ==
  /\ Committed
  /\ \E c1, c2 \in CategoriesOf(last.pre, last.anon) :
       c1.id # c2.id /\ toLowerCase(c1.name) = toLowerCase(c2.name)

\* C6 (guest cleanup): after a committed merge no session of the guest is
\* left, the device's bearer token resolves to no owner, and the guest's
\* user row is gone if it was flagged anonymous.
C6_GuestCleanup ==
  Committed =>
    /\ \A x \in db.sessions : x.userId # last.anon
    /\ ValidSessions(db, cookie[last.dev]) = {}
    /\ \A u \in UserRows(last.pre, last.anon) :
         u.isAnonymous => UserRows(db, last.anon) = {}

\* a merge committed for a guest that had a session and a flagged user row
C6_Witness ==
  /\ Committed
  /\ \E x \in last.pre.sessions : x.userId = last.anon
  /\ \E u \in UserRows(last.pre, last.anon) : u.isAnonymous

\* C7 (resolver priority): a request of a signed-in device resolves to the
\* authenticated identity whatever bearer cookie it carries; a request of a
\* device that is not signed in and carries a valid bearer cookie resolves
\* to the owner of that session, reported as not authenticated.
C7_ResolverPriority ==
  last.op \in ReadOps \cup WriteOps =>
    IF auth[last.dev] # NoSession
      THEN /\ last.userId = auth[last.dev].id
           /\ last.op \in ReadOps => last.isAuthed
      ELSE \A x \in ValidSessions(db, cookie[last.dev]) :
             last.userId = x.userId /\ ~last.isAuthed

\* a signed-in device that also holds a valid guest cookie made a request
C7_Witness ==
  /\ last.op \in ReadOps \cup WriteOps
  /\ auth[last.dev] # NoSession
  /\ ValidSessions(db, cookie[last.dev]) # {}
  /\ last.userId = auth[last.dev].id

\* C8 as claimed (reads never error): a read of a device that is not signed
\* in and whose bearer cookie is absent, unknown or expired resolves to no
\* owner and is answered with an empty result, not with an error.
C8_ReadsNeverError ==
  (/\ last.op \in ReadOps
   /\ auth[last.dev] = NoSession
   /\ ValidSessions(db, cookie[last.dev]) = {})
  => /\ last.userId = None
     /\ last.status = 200
     /\ last.body = {}

\* C9 (write provisioning): a write of a device with no authenticated session
\* and no valid bearer session adds exactly one user, flagged anonymous, and
\* exactly one session, owned by that user and keyed by the hash of the token
\* the resolver hands back; the user owns the record written, and a
\* successful response sets the cookie to that token. Any other write adds
\* no user and no session and hands back no token.
C9_WriteProvisioning ==
  [][(last.op = "none" /\ last'.op \in WriteOps) =>
       LET d == last'.dev
           newUsers == db'.users \ db.users
           newSessions == {x \in db'.sessions : x.id \notin Ids(db.sessions)}
       IN IF auth[d] = NoSession /\ ValidSessions(db, cookie[d]) = {}
            THEN /\ Cardinality(newUsers) = 1
                 /\ Cardinality(newSessions) = 1
                 /\ db.users \subseteq db'.users
                 /\ \A u \in newUsers, x \in newSessions :
                      /\ u.isAnonymous
                      /\ x.userId = u.id
                      /\ last'.directive # NoToken
                      /\ x.tokenHash = hashToken(last'.directive)
                      /\ last'.userId = u.id
                      /\ last'.status = 201 => last'.setCookie = last'.directive
                      /\ \A c \in db'.categories \ db.categories : c.userId = u.id
                      /\ \A t \in db'.transactions \ db.transactions : t.userId = u.id
            ELSE /\ db'.users = db.users
                 /\ Ids(db'.sessions) = Ids(db.sessions)
                 /\ last'.directive = NoToken
                 /\ last'.setCookie = NoToken]_vars

\* a write that carried a cookie which no longer resolves provisioned a guest
\* and created its record
C9_Witness ==
  /\ last.op \in WriteOps
  /\ last.provisioned # None
  /\ last.created # None
  /\ cookie[last.dev] # NoToken

\* the merge whose transaction is open, or whose reply is pending
MergeRun ==
  IF mtx.pc # "idle"
    THEN [dev |-> mtx.dev, anon |-> mtx.anonUserId, pre |-> mtx.pre]
    ELSE [dev |-> last.dev, anon |-> last.anon, pre |-> last.pre]

\* C10 (session resolution): a bearer token identifies an owner exactly when
\* a session row with its hash exists whose expiresAt is null or not in the
\* past: the routes and the page resolve to that row's owner then and to
\* nobody otherwise, and a merge transaction is opened only for such a row.
C10_SessionResolution ==
  /\ (last.op \in ReadOps \cup WriteOps /\ auth[last.dev] = NoSession) =>
       IF ValidSessions(db, cookie[last.dev]) # {}
         THEN /\ \A x \in ValidSessions(db, cookie[last.dev]) : last.userId = x.userId
              /\ last.provisioned = None
         ELSE last.userId = None \/ last.provisioned = last.userId
  /\ (mtx.pc # "idle" \/ last.merge \in {"committed", "failed"}) =>
       \E x \in ValidSessions(MergeRun.pre, cookie[MergeRun.dev]) :
         x.userId = MergeRun.anon
  /\ (last.merge = "noop" /\ last.isAuthed) =>
       \A x \in ValidSessions(db, cookie[last.dev]) : x.userId = last.userId

\* a sign-in merge did nothing because the device's session had expired
C10_Witness ==
  /\ last.op = "signIn"
  /\ last.merge = "noop"
  /\ \E x \in SessionFor(db, cookie[last.dev]) : x.expiresAt < now

\* the store of a step differs at most by the user row the adapter writes for
\* the account that signs in on device d
OnlyAdapterWrote(d) ==
  /\ db'.sessions = db.sessions
  /\ db'.categories = db.categories
  /\ db'.transactions = db.transactions
  /\ db.users \subseteq db'.users
  /\ \A u \in db'.users \ db.users : u.id = auth'[d].id /\ ~u.isAnonymous

\* C11 (precondition miss): a merge invoked for a device that holds no bearer
\* token, or a token with no session in date, or a session whose owner is
\* the authenticated identity itself, changes no user, session, category or
\* transaction, opens no transaction and raises no error.
C11_PreconditionMiss ==
  [][\A d \in Devices :
       (/\ MergeInvoked(d)
        /\ \A x \in ValidSessions(db, cookie[d]) : x.userId = auth'[d].id)
       => /\ OnlyAdapterWrote(d)
          /\ mtx'.pc = "idle"
          /\ last'.merge = "noop"
          /\ last'.status # 500]_vars

\* the import ran for a signed-in device whose bearer session had expired
C11_Witness ==
  /\ last.op = "import"
  /\ last.merge = "noop"
  /\ last.isAuthed
  /\ \E x \in SessionFor(db, cookie[last.dev]) : x.expiresAt < now

\* C12 (merge failure never blocks sign-in): whatever the merge of a sign-in
\* does (nothing, commit, abort because the authenticated user is not found,
\* failure of a statement), the event handler ends without an error and the
\* device is signed in, also while the transaction is still open.
C12_SignInNeverBlocked ==
  /\ last.op = "signIn" =>
       /\ last.status = 200
       /\ last.merge \in {"noop", "committed", "failed"}
       /\ auth[last.dev] # NoSession
  /\ (mtx.pc # "idle" /\ mtx.entry = "signIn") => auth[mtx.dev] # NoSession

\* the merge of a sign-in failed on a statement of its category loop
C12_Witness ==
  /\ last.op = "signIn"
  /\ last.merge = "failed"
  /\ last.at = "categories"
  /\ auth[last.dev] # NoSession

\* C13 as claimed (cookie handling around merge): the response of either merge
\* entry point clears the bearer cookie when its transaction committed, and
\* carries no cookie directive when the transaction failed.
C13_CookieHandling ==
  /\ Committed => last.setCookie = ClearCookie
  /\ last.merge = "failed" => last.setCookie = NoToken

\* C14 as claimed (import equals merge): for every store, bearer cookie and
\* authenticated identity (also one whose id the store does not hold while
\* its email does), the import leaves the stores the sign-in merge leaves.
C14_ImportEqualsMerge ==
  Quiet =>
    \A d \in Devices, id \in AuthIds \cup {StaleId}, a \in AuthIds :
      ImportOutcomes(db, cookie[d], now, id)
        = mergeAnonIntoAuthedUser(db, cookie[d], now, id, Email(a))

\* every category and transaction user `from` owns in store pre is owned by
\* user `to` in store post, or was a category replaced by one of `to`'s
AllMovedTo(pre, post, from, to) ==
  /\ CategoriesOf(post, from) = {}
  /\ TransactionsOf(post, from) = {}
  /\ \A t \in TransactionsOf(pre, from) :
       \E t2 \in post.transactions : t2.id = t.id /\ t2.userId = to
  /\ \A c \in CategoriesOf(pre, from) :
       \E c2 \in CategoriesOf(post, to) : toLowerCase(c2.name) = toLowerCase(c.name)

\* C15 as claimed (authenticated identity lookup): for a bearer cookie that
\* resolves to a guest, either entry point merges all guest data into the
\* user found by the identity's id or, failing that, by its email; when
\* neither finds a user the store is left as it was.
C15_AuthedLookup ==
  Quiet =>
    \A d \in Devices, id \in AuthIds \cup {StaleId},
       e \in {NoEmail} \cup {Email(a) : a \in AuthIds} :
      LET anonUserId == MergeSessionOwner(db, cookie[d], now)
          found == FindAuthedUser(db, id, e)
          outcomes == mergeAnonIntoAuthedUser(db, cookie[d], now, id, e)
                        \cup ImportOutcomes(db, cookie[d], now, id)
      IN (anonUserId # None /\ anonUserId # id) =>
           IF found = None THEN outcomes = {db}
           ELSE \A post \in outcomes : AllMovedTo(db, post, anonUserId, found)

\* C16 (conditional retirement): a step deletes a user row only when it
\* commits a merge, and then only the row of the owner of the device's bearer
\* session, flagged anonymous; and the user.deleteMany of the merge, applied
\* to any user of the store, removes no row but that user's and none that is
\* not flagged anonymous.
C16_ConditionalRetirement ==
  [][/\ \A u \in db.users \ db'.users :
          /\ u.isAnonymous
          /\ mtx.pc = "commit"
          /\ u.id = mtx.anonUserId
          /\ \E x \in SessionFor(mtx.pre, cookie[mtx.dev]) : x.userId = u.id
     /\ \A u \in db.users :
          \A v \in db.users \ DeleteAnonUser(db, u.id).users :
            v.id = u.id /\ v.isAnonymous]_vars

\* a merge committed and deleted its guest while an authenticated user and
\* another guest stayed in the store
C16_Witness ==
  /\ Committed
  /\ UserRows(last.pre, last.anon) # {}
  /\ UserRows(db, last.anon) = {}
  /\ \E u \in db.users : ~u.isAnonymous
  /\ \E u \in db.users : u.isAnonymous

\* C17 (discard): a discard answers with a cleared cookie, deletes every
\* session of the guest the device's cookie resolved to, and changes no user,
\* category or transaction, so the guest's data stays with the guest; after
\* it the cookie resolves to nobody, and a second discard, with the old
\* cookie or with none, changes nothing.
C17_Discard ==
  [][(last.op = "none" /\ last'.op = "discard") =>
       LET d == last'.dev
           guests == {x.userId : x \in ValidSessions(db, cookie[d])}
       IN /\ last'.setCookie = ClearCookie
          /\ db'.sessions = {x \in db.sessions : x.userId \notin guests}
          /\ db'.users = db.users
          /\ db'.categories = db.categories
          /\ db'.transactions = db.transactions
          /\ ValidSessions(db', cookie[d]) = {}
          /\ Discard(db', cookie[d], now) = db'
          /\ Discard(db', NoToken, now) = db']_vars

\* a guest that owned a transaction was discarded: its session is gone, its
\* user row and transaction are still there
C17_Witness ==
  /\ last.op = "discard"
  /\ last.anon # None
  /\ TransactionsOf(db, last.anon) # {}
  /\ UserRows(db, last.anon) # {}
  /\ \A x \in db.sessions : x.userId # last.anon

\* C18 (merge scope): a committed merge leaves the payment sources and their
\* owners as they were, leaves every remaining user row as it was (its
\* default payment source included), removes no user but the guest and no
\* session but the guest's, and keeps every transaction with the payment
\* source it pointed to.
C18_MergeScope ==
  Committed =>
    /\ db.paymentSources = last.pre.paymentSources
    /\ db.users \subseteq last.pre.users
    /\ last.pre.users \ db.users \subseteq UserRows(last.pre, last.anon)
    /\ db.sessions \subseteq last.pre.sessions
    /\ \A x \in last.pre.sessions \ db.sessions : x.userId = last.anon
    /\ Ids(db.transactions) = Ids(last.pre.transactions)
    /\ \A t \in last.pre.transactions :
         \E t2 \in db.transactions :
           t2.id = t.id /\ t2.paymentSourceId = t.paymentSourceId

\* a merge committed into a user who had a payment source, had it as default
\* and had a transaction paid from it, while the guest had a transaction too
C18_Witness ==
  /\ Committed
  /\ TransactionsOf(last.pre, last.anon) # {}
  /\ \E p \in db.paymentSources : p.userId = last.final
  /\ \E u \in UserRows(db, last.final) : u.defaultTransactionsPaymentSourceId # None
  /\ \E t \in db.transactions : t.paymentSourceId # None

\* the request started without a cookie and without an authenticated session
Uninitialized(q) == q.op \in WriteOps /\ q.raw = NoToken /\ q.sess = NoSession

\* C19 (racing provisioning): of two write requests that both arrived without
\* cookie and session and have both been answered, each provisioned its own
\* guest, the two guests and their token hashes differ, each token resolves
\* to the guest of its own request, neither request ended in a storage error
\* or conflict, and each record created belongs to the guest of its request.
C19_RacingProvisioning ==
  \A r1, r2 \in Requests :
    (/\ r1 # r2
     /\ Uninitialized(reqs[r1]) /\ reqs[r1].pc \in {"respond", "done"}
     /\ Uninitialized(reqs[r2]) /\ reqs[r2].pc \in {"respond", "done"})
    => LET q1 == reqs[r1]
           q2 == reqs[r2]
       IN /\ q1.provisioned # None /\ q1.provisioned = q1.userId
          /\ q1.provisioned # q2.provisioned
          /\ q1.setCookie # NoToken
          /\ hashToken(q1.setCookie) # hashToken(q2.setCookie)
          /\ getUserIdFromAnonCookie(db, q1.setCookie, now) = q1.provisioned
          /\ UserRows(db, q1.provisioned) # {}
          /\ q1.status \in {201, 400}
          /\ q1.status = 201 <=> q1.body # ""
          /\ q1.status = 201 <=> q1.created # None
          /\ \A c \in db.categories :
               (q1.op = "CategoriesPOST" /\ c.id = q1.created) => c.userId = q1.provisioned
          /\ \A t \in db.transactions :
               (q1.op = "TransactionsPOST" /\ t.id = q1.created) => t.userId = q1.provisioned

\* two requests without cookie overlapped (each arrived before the other was
\* answered) and both created a category of the same name
C19_Witness ==
  \E r1, r2 \in Requests :
    /\ r1 # r2
    /\ Uninitialized(reqs[r1]) /\ reqs[r1].pc = "done" /\ reqs[r1].status = 201
    /\ Uninitialized(reqs[r2]) /\ reqs[r2].pc = "done" /\ reqs[r2].status = 201
    /\ reqs[r1].op = "CategoriesPOST" /\ reqs[r2].op = "CategoriesPOST"
    /\ reqs[r1].body = reqs[r2].body
    /\ reqs[r1].provisioned # reqs[r2].provisioned

\* the rows of owner u a read of kind op returns from store s
RowsOf(s, op, u) ==
  IF op = "CategoriesGET" THEN CategoriesOf(s, u) ELSE TransactionsOf(s, u)

\* C20 (isolation): while a merge transaction is open the committed
\* categories and transactions are those from before the merge, and a read
\* whose findMany ran while the transaction was open returned, for the guest
\* as for the authenticated identity, exactly the owner's rows from before
\* the merge, whatever the transaction had already moved or deleted.
C20_Isolation ==
  /\ mtx.pc # "idle" =>
       /\ ReadCommitted(db, mtx).categories = mtx.pre.categories
       /\ ReadCommitted(db, mtx).transactions = mtx.pre.transactions
  /\ \A r \in Requests :
       (reqs[r].pc = "done" /\ reqs[r].during) =>
         reqs[r].rows = RowsOf(reqs[r].pre, reqs[r].op, reqs[r].userId)

\* a read of the guest's categories ran while the open transaction had
\* already deleted one of them and moved its transactions
C20_Witness ==
  \E r \in Requests :
    /\ reqs[r].pc = "done" /\ reqs[r].during
    /\ reqs[r].op = "CategoriesGET"
    /\ reqs[r].userId = mtx.anonUserId
    /\ mtx.pc = "retireGuest"
    /\ reqs[r].rows # {}
    /\ CategoriesOf(mtx.work, mtx.anonUserId) = {}
    /\ \E c \in reqs[r].rows : c.id \notin Ids(mtx.work.categories)

\* the plaintext bearer tokens the generator can draw
Tokens == {Token(k) : k \in 1..(MaxGuests + 1)}

\* C21 (token secrecy and uniqueness): a session row has no column for the
\* plaintext token and its tokenHash is the hash of a token, never a token;
\* a response carries a token only if its own request provisioned the guest
\* the token's session belongs to, no two responses carry the same token,
\* every session row stems from one such request, and no two session rows
\* share a token hash.
C21_TokenSecrecy ==
  /\ \A s \in db.sessions :
       /\ DOMAIN s = {"id", "userId", "tokenHash", "expiresAt", "lastSeenAt"}
       /\ s.tokenHash \notin Tokens
       /\ \E k \in 1..MaxGuests : s.tokenHash = hashToken(Token(k))
       /\ \E r \in Requests :
            /\ reqs[r].setCookie # NoToken
            /\ s.tokenHash = hashToken(reqs[r].setCookie)
            /\ s.userId = reqs[r].provisioned
  /\ \A s1, s2 \in db.sessions : s1.tokenHash = s2.tokenHash => s1 = s2
  /\ \A r \in Requests :
       reqs[r].setCookie # NoToken =>
         /\ reqs[r].setCookie \in Tokens
         /\ reqs[r].provisioned # None
         /\ \E s \in db.sessions :
              s.tokenHash = hashToken(reqs[r].setCookie) /\ s.userId = reqs[r].provisioned
         /\ \A q \in Requests : reqs[q].setCookie = reqs[r].setCookie => q = r

\* two requests have each provisioned a guest: two session rows, two tokens
C21_Witness ==
  /\ Cardinality(db.sessions) = 2
  /\ \E r1, r2 \in Requests :
       /\ r1 # r2
       /\ reqs[r1].pc = "done" /\ reqs[r2].pc = "done"
       /\ reqs[r1].setCookie \in Tokens /\ reqs[r2].setCookie \in Tokens
       /\ cookie[reqs[r2].dev] \in Tokens

\* C22 as claimed (expired session at merge time): when the bearer cookie of
\* the device maps to an expired session, either merge entry point changes
\* nothing in the store, raises no error, and its response carries no cookie
\* directive, so the cookie stays on the device.
C22_ExpiredAtMerge ==
  (/\ last.op \in {"signIn", "import"}
   /\ \E x \in SessionFor(db, cookie[last.dev]) : x.expiresAt # None /\ x.expiresAt < now)
  => /\ last.merge = "noop"
     /\ last.status # 500
     /\ db = last.pre
     /\ last.setCookie = NoToken

\* C23 (step ordering): a turn of the category loop leaves no transaction
\* that refers to the category it deleted and does not yet re-own any guest
\* transaction; the blanket reassignment starts only when the loop has ended
\* and the guest owns no category any more; the guest's sessions and the
\* guest are deleted only after the reassignment, when the guest owns neither
\* category nor transaction, and not before.
C23_StepOrdering ==
  [][/\ (mtx.pc = "categories" /\ mtx'.pc = "categories") =>
          /\ \A id \in Ids(mtx.work.categories) \ Ids(mtx'.work.categories) :
               /\ \E c \in CategoriesOf(mtx.work, mtx.anonUserId) : c.id = id
               /\ \A t \in mtx'.work.transactions : t.categoryId # id
          /\ Ids(TransactionsOf(mtx'.work, mtx.anonUserId))
               = Ids(TransactionsOf(mtx.pre, mtx.anonUserId))
          /\ mtx'.work.users = mtx.pre.users
          /\ mtx'.work.sessions = mtx.pre.sessions
     /\ mtx'.pc = "retireGuest" =>
          /\ mtx.pc = "categories"
          /\ mtx.anonCategories = <<>>
          /\ CategoriesOf(mtx.work, mtx.anonUserId) = {}
          /\ Ids(TransactionsOf(mtx.work, mtx.anonUserId))
               = Ids(TransactionsOf(mtx.pre, mtx.anonUserId))
          /\ TransactionsOf(mtx'.work, mtx.anonUserId) = {}
          /\ mtx'.work.users = mtx.pre.users
          /\ mtx'.work.sessions = mtx.pre.sessions
     /\ mtx'.pc = "commit" =>
          /\ mtx.pc = "retireGuest"
          /\ CategoriesOf(mtx.work, mtx.anonUserId) = {}
          /\ TransactionsOf(mtx.work, mtx.anonUserId) = {}
          /\ UserRows(mtx.work, mtx.anonUserId) # {}
          /\ UserRows(mtx'.work, mtx.anonUserId) = {}
          /\ \A x \in mtx'.work.sessions : x.userId # mtx.anonUserId
          /\ \A t \in mtx'.work.transactions :
               t.categoryId = None \/ t.categoryId \in Ids(mtx'.work.categories)]_vars

\* the transaction is about to delete the guest after a loop that deleted
\* one guest category, redirecting its transaction, and re-owned another
C23_Witness ==
  /\ mtx.pc = "retireGuest"
  /\ \E c \in CategoriesOf(mtx.pre, mtx.anonUserId) :
       /\ c.id \notin Ids(mtx.work.categories)
       /\ \E t \in mtx.pre.transactions : t.categoryId = c.id
  /\ \E c \in CategoriesOf(mtx.pre, mtx.anonUserId) :
       c \notin mtx.work.categories /\ c.id \in Ids(CategoriesOf(mtx.work, mtx.final))

\* the request resolved its owner through the bearer cookie
ByCookie(q) == q.op \in ReadOps /\ q.pc \in {"find", "done"} /\ q.userId # None /\ ~q.isAuthed

\* C24 (best-effort lastSeenAt touch): a request that resolves the bearer
\* cookie gets the owner of the session and starts the update without
\* waiting for it; it goes on and answers 200 with that owner whether the
\* update is pending, done or rejected; the update changes nothing but
\* lastSeenAt of the one session row it was started for.
C24_BestEffortTouch ==
  [][\A r \in Requests :
       /\ (reqs[r].pc = "resolve" /\ reqs'[r].pc # "resolve"
           /\ getUserIdFromNextAuth(db, reqs[r].sess) = None) =>
            /\ reqs'[r].userId = getUserIdFromAnonCookie(db, reqs[r].raw, now)
            /\ reqs'[r].userId # None =>
                 /\ reqs'[r].pc = "find"
                 /\ reqs'[r].touch = "pending"
                 /\ \E x \in db.sessions :
                      x.id = reqs'[r].touchId /\ x.tokenHash = hashToken(reqs[r].raw)
            /\ db' = db
       /\ ByCookie(reqs[r]) =>
            /\ reqs'[r].userId = reqs[r].userId
            /\ reqs'[r].status \in {0, 200}
            /\ reqs'[r].pc = "done" => reqs'[r].status = 200
            /\ (reqs[r].pc = "find" /\ reqs'[r].touch = reqs[r].touch /\ reqs' # reqs) =>
                 \/ reqs'[r].pc = "done"
                 \/ reqs'[r] = reqs[r]
       /\ (reqs[r].touch = "pending" /\ reqs'[r].touch # "pending") =>
            /\ reqs'[r].touch = IF \E x \in db.sessions : x.id = reqs[r].touchId
                                  THEN "done" ELSE "failed"
            /\ reqs'[r].pc = reqs[r].pc
            /\ db'.users = db.users
            /\ db'.categories = db.categories
            /\ db'.transactions = db.transactions
            /\ db'.paymentSources = db.paymentSources
            /\ Ids(db'.sessions) = Ids(db.sessions)
            /\ \A x \in db.sessions :
                 IF x.id = reqs[r].touchId
                   THEN [x EXCEPT !.lastSeenAt = now] \in db'.sessions
                   ELSE x \in db'.sessions]_vars

\* a read answered 200 for the guest while its update was rejected: the
\* session row had been deleted by a merge that committed in between
C24_Witness ==
  \E r \in Requests :
    /\ ByCookie(reqs[r])
    /\ reqs[r].pc = "done" /\ reqs[r].status = 200
    /\ reqs[r].touch = "failed"
    /\ reqs[r].raw \in merged
    /\ \A x \in db.sessions : x.id # reqs[r].touchId

\* requests r1 and r2 are two ended merges of the same bearer session into
\* the same authenticated identity, both of which found the session
Redundant(r1, r2) ==
  /\ r1 # r2
  /\ reqs[r1].pc = "done" /\ reqs[r2].pc = "done"
  /\ reqs[r1].merge # "noop" /\ reqs[r2].merge # "noop"
  /\ reqs[r1].raw = reqs[r2].raw
  /\ reqs[r1].sess = reqs[r2].sess

\* C25 as claimed (redundant concurrent merges): when two merges of the same
\* bearer session into the same identity have both found the session and
\* both ended, the store is one that a single merge leaves, no transaction
\* of the two ended with an error, and no request answered with a failure.
C25_RedundantMerges ==
  \A r1, r2 \in Requests :
    Redundant(r1, r2) =>
      /\ db \in mergeAnonIntoAuthedUser(reqs[r1].pre, reqs[r1].raw, now,
                                        reqs[r1].sess.id, reqs[r1].sess.email)
      /\ reqs[r1].merge # "failed"
      /\ reqs[r1].status # 500

\* request w is an acknowledged create of a record for the guest that the
\* ended merge request m set out to merge
RacedWrite(w, m) ==
  /\ reqs[w].op \in WriteOps /\ reqs[w].pc = "done"
  /\ reqs[w].status = 201 /\ ~reqs[w].isAuthed
  /\ reqs[m].op \in {"signIn", "import"} /\ reqs[m].pc = "done"
  /\ reqs[m].merge # "noop"
  /\ reqs[m].userId = reqs[w].userId

\* C26 as claimed (guest write racing a merge): once a merge of a guest and a
\* write request that created a record for that guest and answered 201 have
\* both ended, the record exists and belongs to the authenticated identity.
C26_WriteRacingMerge ==
  \A w, m \in Requests :
    RacedWrite(w, m) =>
      IF reqs[w].op = "CategoriesPOST"
        THEN \E c \in db.categories :
               c.id = reqs[w].created /\ c.userId = reqs[m].sess.id
        ELSE \E t \in db.transactions :
               t.id = reqs[w].created /\ t.userId = reqs[m].sess.id

\* C27 as claimed (provisioned token is always delivered): the response of a
\* write request that provisioned a guest carries the Set-Cookie directive
\* with the token of that guest's session, whatever the status of the
\* response.
C27_TokenDelivered ==
  (last.op \in WriteOps /\ last.provisioned # None) =>
    /\ last.setCookie # NoToken
    /\ last.setCookie = last.directive
    /\ getUserIdFromAnonCookie(db, last.setCookie, now) = last.provisioned

\* C28 (source differs from target): an open merge transaction that has found
\* its target, by id or through the email fallback, merges into an existing
\* identity other than the owner of the bearer session, and every statement
\* that changes the store runs with such a target; the owner of the session
\* is a guest without email.
C28_SourceDiffersFromTarget ==
  [][/\ mtx'.pc \in {"loadCategories", "categories", "retireGuest", "commit"} =>
          /\ mtx'.anonUserId # None
          /\ mtx'.final # None
          /\ mtx'.final # mtx'.anonUserId
          /\ UserRows(mtx'.pre, mtx'.final) # {}
          /\ \E x \in SessionFor(mtx'.pre, cookie[mtx'.dev]) : x.userId = mtx'.anonUserId
          /\ \A u \in UserRows(mtx'.pre, mtx'.anonUserId) :
               u.isAnonymous /\ u.email = NoEmail
     /\ (mtx.pc # "idle" /\ mtx'.pc # "idle" /\ mtx'.work # mtx.work) =>
          /\ mtx.final # None
          /\ mtx.final # mtx.anonUserId
          /\ \A c \in mtx'.work.categories \ mtx.work.categories : c.userId = mtx.final
          /\ \A t \in mtx'.work.transactions \ mtx.work.transactions :
               t.userId \in {mtx.final, mtx.anonUserId}]_vars

\* a sign-in merge whose target was found through the email fallback has
\* re-owned the guest's rows
C28_Witness ==
  /\ mtx.pc = "retireGuest"
  /\ mtx.entry = "signIn"
  /\ mtx.final # mtx.authedUserId
  /\ CategoriesOf(mtx.pre, mtx.anonUserId) # {}
  /\ CategoriesOf(mtx.work, mtx.anonUserId) = {}
  /\ TransactionsOf(mtx.pre, mtx.anonUserId) # {}
  /\ TransactionsOf(mtx.work, mtx.final) # {}

\* the rows of store dbv that belong to identities other than userId
RowsOfOthers(dbv, userId) ==
  [users |-> {u \in dbv.users : u.id # userId},
   categories |-> {c \in dbv.categories : c.userId # userId},
   transactions |-> {t \in dbv.transactions : t.userId # userId},
   paymentSources |-> {p \in dbv.paymentSources : p.userId # userId}]

C30_CategoryOwnership ==
  /\ \A t \in db.transactions :
       t.categoryId # None => assertCategoryBelongsToUser(db, t.userId, t.categoryId)
  /\ (last.op = "CategoriesDELETE" /\ last.status = 200) =>
       \A id \in last.body :
         /\ ~\E c \in db.categories : c.id = id
         /\ ~\E t \in db.transactions : t.categoryId = id

\* after a merge, the account deleted a category that came with transactions
\* and reassigned them to another of its categories
C30_Witness ==
  /\ last.op = "CategoriesDELETE"
  /\ last.status = 200
  /\ merged # {}
  /\ \E t \in last.pre.transactions, t2 \in db.transactions :
       /\ t.categoryId \in last.body
       /\ t2.id = t.id
       /\ t2.categoryId # None
====
